---- MODULE Spec2Model ----
(***************************************************************************)
(* A model of the ForteBank statement pipeline of kz-forte-reports:        *)
(* src/budged/parser.py (row classification, field parsing, extraction),   *)
(* src/budged/categories.py (category tables), src/budged/aggregator.py    *)
(* (aggregation and totals), src/budged/formatter.py (reports), the tools *)
(* of src/mcp_server.py and the copy of the pipeline in src/reporter.py.   *)
(*                                                                         *)
(* Texts are sequences of one-character strings.  Python's None is the     *)
(* record None; an optional text is None or Some(text).  Amounts are exact *)
(* integers counted in hundredths of a KZT (the code holds them in         *)
(* floats; rounding of float addition is outside this model).              *)
(***************************************************************************)
EXTENDS Integers, Sequences, FiniteSets, TLC

VARIABLES
    data,          \* aggregation: the list of parsed transactions
    aggregated,    \* aggregation: result of group_by_description_and_mcc
    totals,        \* aggregation: result of compute_purchase_totals
    aggPc,         \* aggregation: "input" while the list is built, then "done"
    details,       \* cleaning: the details cell handed to _clean_details
    cleaned,       \* cleaning: _clean_details(details)
    recleaned,     \* cleaning: _clean_details(cleaned)
    cleanPc,       \* cleaning: "input", "cleaned", "recleaned"
    sum_str,       \* amounts: the text handed to parse_sum
    sum_val,       \* amounts: parse_sum(sum_str)
    sumPc,         \* amounts: "input", "parsed"
    raw_row,       \* classification: the table row handed to _is_data_row
    accepted,      \* classification: _is_data_row(row)
    rowPc,         \* classification: "input", "checked"
    details_str,   \* details: the text handed to parse_details
    details_map,   \* details: parse_details(details_str)
    detPc,         \* details: "input", "parsed"
    pdf_exists,    \* extraction: whether the file at pdf_path exists
    pages,         \* extraction: the pages, tables and rows read so far
    rows,          \* extraction: the list parse_pdf builds
    parsed,        \* extraction: parse_transactions(rows)
    pdfPc,         \* extraction: "tool", "start", "loop", "returned",
                   \* "parsed", "reported", "tool_error",
                   \* "FileNotFoundError", "AttributeError"
    caller,        \* extraction: "tool" when a server tool calls parse_pdf,
                   \* "direct" otherwise
    tool_result,   \* extraction: what the server tool returned, or None
    group_aggregated, \* grouping: result of group_by_description_and_mcc_group
    tuple_in,      \* building: the 4-tuple handed to parse_row
    txn,           \* building: parse_row(*tuple_in), or None
    buildPc,       \* building: "input", "built"
    agg_in,        \* formatting: the table handed to format_aggregated
    parsed_in,     \* formatting: the list handed to format_raw_report
    sort_by,       \* formatting: the sort key argument
    fmt,           \* formatting: the style argument
    report,        \* formatting: the report produced, or None
    fmtPc,         \* formatting: "input", "aggregated", "raw"
    mcc_groups_now,    \* categories: the module's mcc_groups object
    name_to_group_now, \* categories: the module's name_to_group object
    imported,      \* categories: how many assignments the import loops made
    raw_report,    \* summary: what raw_transactions_report returned, or None
    reporter_fn,   \* copies: the function both copies are run on, or "none"
    reporter_result \* copies: what the copy of src/reporter.py returned

aggVars == <<data, aggregated, totals, aggPc>>

cleanVars == <<details, cleaned, recleaned, cleanPc>>

sumVars == <<sum_str, sum_val, sumPc>>

rowVars == <<raw_row, accepted, rowPc>>

detVars == <<details_str, details_map, detPc>>

pdfVars == <<pdf_exists, pages, rows, parsed, pdfPc>>

toolVars == <<caller, tool_result>>

groupVars == <<group_aggregated>>

buildVars == <<tuple_in, txn, buildPc>>

fmtVars == <<agg_in, parsed_in, sort_by, fmt, report, fmtPc>>

tableVars == <<mcc_groups_now, name_to_group_now, imported>>

summaryVars == <<raw_report>>

copyVars == <<reporter_fn, reporter_result>>

vars == <<aggVars, cleanVars, sumVars, rowVars, detVars, pdfVars, toolVars,
          groupVars, buildVars, fmtVars, tableVars, summaryVars,
          copyVars>>

----------------------------------------------------------------------------
(* Bounds of the checked instances. *)

MaxTxns == 3

MaxText == 5

MaxSumText == 4

MaxNumLen == 2

MaxCells == 5

MaxTokens == 4

MaxPages == 2

MaxTables == 2

MaxRows == 3

\* the longest transaction list of the grouping specification
MaxGroupTxns == 2

\* the most tokens of a text of the bank specification
MaxBankTokens == 3

\* the most entries of a table handed to format_aggregated
MaxEntries == 3

\* the longest list handed to format_raw_report
MaxReportRows == 2

\* the longest statement the server tools summarise
MaxSummaryTxns == 2

----------------------------------------------------------------------------
(* Python values. *)

None == [none |-> TRUE]

Some(v) == [none |-> FALSE, val |-> v]

IsNone(o) == o.none

----------------------------------------------------------------------------
(* src/budged/categories.py *)

mcc2name ==
    [c \in {"5411", "5814", "5812", "5977", "5943", "5199", "4121", "5995",
            "5691", "5200", "5311", "7941", "5262", "5912", "5541", "8099",
            "5331", "4829", "4215", "1750", "7832", "5641", "3068", "5499",
            "8071"} |->
        CASE c = "5411" -> "Grocery Stores, Supermarkets"
          [] c = "5814" -> "Fast Food Restaurants"
          [] c = "5812" -> "Eating Places, Restaurants"
          [] c = "5977" -> "Cosmetic Stores"
          [] c = "5943" -> "Stationery, Office Supplies"
          [] c = "5199" -> "Nondurable Goods"
          [] c = "4121" -> "Taxicabs and Limousines"
          [] c = "5995" -> "Pet Shops"
          [] c = "5691" -> "Men's and Women's Clothing Stores"
          [] c = "5200" -> "Home Supply Warehouse Stores"
          [] c = "5311" -> "Department Stores"
          [] c = "7941" -> "Athletic Fields, Commercial Sports"
          [] c = "5262" -> "Marketplaces"
          [] c = "5912" -> "Drug Stores and Pharmacies"
          [] c = "5541" -> "Service Stations (Gas)"
          [] c = "8099" -> "Medical Services"
          [] c = "5331" -> "Variety Stores"
          [] c = "4829" -> "Money Orders / Wire Transfer"
          [] c = "4215" -> "Courier Services"
          [] c = "1750" -> "Carpentry Contractors"
          [] c = "7832" -> "Motion Picture Theaters"
          [] c = "5641" -> "Children's and Infant's Wear Stores"
          [] c = "3068" -> "Airlines"
          [] c = "5499" -> "Miscellaneous Food Stores"
          [] c = "8071" -> "Dental and Medical Laboratories"]

\* lines 31-71, in the order of the dict
mcc_groups ==
    << [group |-> "Food & Dining",
        names |-> <<"Grocery Stores, Supermarkets", "Fast Food Restaurants",
                    "Eating Places, Restaurants", "Miscellaneous Food Stores">>],
       [group |-> "Transport",
        names |-> <<"Taxicabs and Limousines", "Airlines",
                    "Service Stations (Gas)">>],
       [group |-> "Shopping",
        names |-> <<"Cosmetic Stores", "Stationery, Office Supplies",
                    "Nondurable Goods", "Men's and Women's Clothing Stores",
                    "Department Stores", "Marketplaces", "Variety Stores",
                    "Children's and Infant's Wear Stores",
                    "Home Supply Warehouse Stores">>],
       [group |-> "Health & Beauty",
        names |-> <<"Drug Stores and Pharmacies", "Medical Services",
                    "Dental and Medical Laboratories">>],
       [group |-> "Entertainment",
        names |-> <<"Athletic Fields, Commercial Sports",
                    "Motion Picture Theaters">>],
       [group |-> "Services",
        names |-> <<"Courier Services", "Carpentry Contractors",
                    "Money Orders / Wire Transfer">>],
       [group |-> "Pets",
        names |-> <<"Pet Shops">>] >>

\* the groups, by position, that list the name n
groups_listing(n) ==
    {g \in 1..Len(mcc_groups) :
        \E i \in 1..Len(mcc_groups[g].names) : mcc_groups[g].names[i] = n}

\* every name that some group lists
listed_names ==
    UNION {{mcc_groups[g].names[i] : i \in 1..Len(mcc_groups[g].names)} :
              g \in 1..Len(mcc_groups)}

\* lines 73-76: the loops assign name_to_group[_name] = _group in the order
\* of mcc_groups, so the last group that lists a name stays
name_to_group ==
    [n \in listed_names |->
        mcc_groups[CHOOSE g \in groups_listing(n) :
                       \A h \in groups_listing(n) : h <= g].group]

\* lines 74-75: the (_name, _group) pairs in the order the loops visit them
RECURSIVE import_order(_, _, _)
import_order(groups, g, i) ==
    IF g > Len(groups) THEN <<>>
    ELSE IF i > Len(groups[g].names) THEN import_order(groups, g + 1, 1)
    ELSE <<[name |-> groups[g].names[i], group |-> groups[g].group]>>
         \o import_order(groups, g, i + 1)

\* A faulty assignment: the index is keyed by the group.
load_name_inverted(index, name, group) ==
    [n \in DOMAIN index \cup {group} |-> IF n = group THEN name ELSE index[n]]

\* line 76: name_to_group[_name] = _group
load_name(index, name, group) ==
    [n \in DOMAIN index \cup {name} |-> IF n = name THEN group ELSE index[n]]

----------------------------------------------------------------------------
(* Python dicts with tuple keys: the entries in insertion order, each key   *)
(* once.                                                                    *)

EmptyDict == <<>>

DictKeys(d) == {d[i].key : i \in 1..Len(d)}

DictGet(d, k, default) ==
    IF k \in DictKeys(d)
    THEN (CHOOSE e \in {d[i] : i \in 1..Len(d)} : e.key = k).val
    ELSE default

\* A faulty d[k] += v: the amount replaces the stored total.
DictAdd_overwrite(d, k, v) ==
    IF k \in DictKeys(d)
    THEN [i \in 1..Len(d) |->
            IF d[i].key = k THEN [key |-> k, val |-> v] ELSE d[i]]
    ELSE Append(d, [key |-> k, val |-> v])

\* defaultdict(float): d[k] += v
DictAdd(d, k, v) ==
    IF k \in DictKeys(d)
    THEN [i \in 1..Len(d) |->
            IF d[i].key = k THEN [key |-> k, val |-> d[i].val + v] ELSE d[i]]
    ELSE Append(d, [key |-> k, val |-> 0 + v])

----------------------------------------------------------------------------
(* src/budged/aggregator.py *)

\* A faulty lookup: an empty code is looked up like any other code.
mcc_name_of_empty_looked_up(mcc_code) ==
    IF ~IsNone(mcc_code)
    THEN (IF mcc_code.val \in DOMAIN mcc2name
          THEN mcc2name[mcc_code.val] ELSE "Unknown/No MCC")
    ELSE "No MCC"

\* line 20: the category name of a row's code
mcc_name_of(mcc_code) ==
    IF ~IsNone(mcc_code) /\ mcc_code.val # ""
    THEN (IF mcc_code.val \in DOMAIN mcc2name
          THEN mcc2name[mcc_code.val] ELSE "Unknown/No MCC")
    ELSE "No MCC"

\* A faulty loop body: a bonus row is folded into "Purchase" and not
\* posted to "Saved with bonuses".
group_row_single_post(agg, row) ==
    LET desc     == row.Description
        mcc_name == mcc_name_of(row.Details.mcc)
    IN  IF desc = "Purchase with bonuses"
        THEN DictAdd(agg, <<"Purchase", mcc_name>>, row.Sum)
        ELSE DictAdd(agg, <<desc, mcc_name>>, row.Sum)

\* lines 18-26: the body of the loop, for one row
group_row(agg, row) ==
    LET desc     == row.Description
        mcc_name == mcc_name_of(row.Details.mcc)
    IN  IF desc = "Purchase with bonuses"
        THEN DictAdd(DictAdd(agg, <<"Purchase", mcc_name>>, row.Sum),
                     <<"Saved with bonuses", mcc_name>>, row.Sum)
        ELSE DictAdd(agg, <<desc, mcc_name>>, row.Sum)

RECURSIVE group_loop(_, _, _)
group_loop(agg, txns, i) ==
    IF i > Len(txns) THEN agg
    ELSE group_loop(group_row(agg, txns[i]), txns, i + 1)

group_by_description_and_mcc(txns) == group_loop(EmptyDict, txns, 1)

\* A faulty loop body: "No MCC" is looked up like any other name.
group_item_no_transfers(group_agg, item) ==
    LET desc     == item.key[1]
        mcc_name == item.key[2]
        group_name == IF mcc_name \in DOMAIN name_to_group
                      THEN name_to_group[mcc_name] ELSE "Other Uncategorized"
    IN  DictAdd(group_agg, <<desc, group_name>>, item.val)

\* lines 40-45: the body of the loop, for one entry of base
group_item(group_agg, item) ==
    LET desc     == item.key[1]
        mcc_name == item.key[2]
        group_name == IF mcc_name = "No MCC" THEN "Transfers/Other"
                      ELSE IF mcc_name \in DOMAIN name_to_group
                      THEN name_to_group[mcc_name] ELSE "Other Uncategorized"
    IN  DictAdd(group_agg, <<desc, group_name>>, item.val)

RECURSIVE group_items_loop(_, _, _)
group_items_loop(group_agg, base, i) ==
    IF i > Len(base) THEN group_agg
    ELSE group_items_loop(group_item(group_agg, base[i]), base, i + 1)

\* lines 31-47
group_by_description_and_mcc_group(txns) ==
    group_items_loop(EmptyDict, group_by_description_and_mcc(txns), 1)

\* A faulty loop body: a bonus row is left out of purchase_total.
totals_row_bonus_not_purchase(acc, row) ==
    LET desc   == row.Description
        amount == row.Sum
    IN  [purchase_total |-> IF desc = "Purchase"
                            THEN acc.purchase_total + amount
                            ELSE acc.purchase_total,
         bonuses_total  |-> IF desc = "Purchase with bonuses"
                            THEN acc.bonuses_total + amount
                            ELSE acc.bonuses_total,
         grand_total    |-> acc.grand_total + amount,
         income_total   |-> IF amount > 0 THEN acc.income_total + amount
                            ELSE acc.income_total]

\* lines 62-73: the body of the loop, for one row
totals_row(acc, row) ==
    LET desc   == row.Description
        amount == row.Sum
        g  == acc.grand_total + amount
        inc == IF amount > 0 THEN acc.income_total + amount ELSE acc.income_total
        b  == IF desc = "Purchase with bonuses"
              THEN acc.bonuses_total + amount ELSE acc.bonuses_total
        p  == IF desc = "Purchase with bonuses" \/ desc = "Purchase"
              THEN acc.purchase_total + amount ELSE acc.purchase_total
    IN  [purchase_total |-> p, bonuses_total |-> b,
         grand_total |-> g, income_total |-> inc]

RECURSIVE totals_loop(_, _, _)
totals_loop(acc, txns, i) ==
    IF i > Len(txns) THEN acc
    ELSE totals_loop(totals_row(acc, txns[i]), txns, i + 1)

compute_purchase_totals(txns) ==
    LET acc == totals_loop([purchase_total |-> 0, bonuses_total |-> 0,
                            grand_total |-> 0, income_total |-> 0], txns, 1)
    IN  [purchase_total |-> acc.purchase_total,
         bonuses_total  |-> acc.bonuses_total,
         net_purchases  |-> acc.purchase_total - acc.bonuses_total,
         grand_total    |-> acc.grand_total,
         income_total   |-> acc.income_total]

----------------------------------------------------------------------------
(* Texts and the character classes of Python's re module.                  *)

Digits == {"0", "1", "2", "3", "4", "5", "6", "7", "8", "9"}

\* \d
IsDigit(c) == c \in Digits

\* \s, and the characters str.strip() removes
SpaceChars == {" ", "\t", "\n", "\r", "\f"}

IsSpace(c) == c \in SpaceChars

\* every text of at most n characters of the alphabet A
Texts(A, n) == UNION {[1..k -> A] : k \in 0..n}

RECURSIVE LStrip(_)
LStrip(s) ==
    IF s # <<>> /\ IsSpace(Head(s)) THEN LStrip(Tail(s)) ELSE s

RECURSIVE RStrip(_)
RStrip(s) ==
    IF s # <<>> /\ IsSpace(s[Len(s)])
    THEN RStrip(SubSeq(s, 1, Len(s) - 1)) ELSE s

\* str.strip()
Strip(s) == RStrip(LStrip(s))

----------------------------------------------------------------------------
(* src/budged/parser.py: _clean_details *)

\* line 92: re.sub(r"(?<![,.])\n", " ", details)
sub_newline_plain(s) ==
    [i \in 1..Len(s) |->
        IF s[i] = "\n" /\ ~(i > 1 /\ s[i - 1] \in {",", "."})
        THEN " " ELSE s[i]]

\* A faulty second substitution: a newline after a comma or period stays.
sub_newline_after_punct_kept(s) == s

\* line 93: re.sub(r"([,.])\n", r"\1 ", cleaned)
sub_newline_after_punct(s) ==
    [i \in 1..Len(s) |->
        IF s[i] = "\n" /\ i > 1 /\ s[i - 1] \in {",", "."}
        THEN " " ELSE s[i]]

\* the end of the whitespace run that starts at position i
RECURSIVE run_end(_, _)
run_end(s, i) ==
    IF i < Len(s) /\ IsSpace(s[i + 1]) THEN run_end(s, i + 1) ELSE i

\* A faulty collapse, r"\s{2}": each pair of whitespace characters becomes
\* one space.
RECURSIVE collapse_pairs_from(_, _)
collapse_pairs_from(s, i) ==
    IF i > Len(s) THEN <<>>
    ELSE IF IsSpace(s[i]) /\ i < Len(s) /\ IsSpace(s[i + 1])
         THEN <<" ">> \o collapse_pairs_from(s, i + 2)
         ELSE <<s[i]>> \o collapse_pairs_from(s, i + 1)

\* line 94: re.sub(r"\s{2,}", " ", cleaned), scanning from position i
RECURSIVE collapse_from(_, _)
collapse_from(s, i) ==
    IF i > Len(s) THEN <<>>
    ELSE IF IsSpace(s[i]) /\ run_end(s, i) > i
         THEN <<" ">> \o collapse_from(s, run_end(s, i) + 1)
         ELSE <<s[i]>> \o collapse_from(s, i + 1)

sub_whitespace_pairs(s) == collapse_pairs_from(s, 1)

sub_whitespace_runs(s) == collapse_from(s, 1)

\* lines 88-95
_clean_details(d) ==
    IF IsNone(d) \/ d.val = <<>> THEN <<>>
    ELSE Strip(sub_whitespace_runs(sub_newline_after_punct(sub_newline_plain(d.val))))

----------------------------------------------------------------------------
(* src/budged/parser.py: parse_sum.  A float is the exact decimal        *)
(* m * 10^-e it was read from, in lowest terms: [m |-> m, e |-> e].         *)

RECURSIVE Pow10(_)
Pow10(n) == IF n = 0 THEN 1 ELSE 10 * Pow10(n - 1)

RECURSIVE Dec(_, _)
Dec(m, e) ==
    IF m = 0 THEN [m |-> 0, e |-> 0]
    ELSE IF e > 0 /\ m % 10 = 0 THEN Dec(m \div 10, e - 1)
    ELSE [m |-> m, e |-> e]

Zero == Dec(0, 0)

DigitVal(c) ==
    CASE c = "0" -> 0 [] c = "1" -> 1 [] c = "2" -> 2 [] c = "3" -> 3
      [] c = "4" -> 4 [] c = "5" -> 5 [] c = "6" -> 6 [] c = "7" -> 7
      [] c = "8" -> 8 [] c = "9" -> 9

\* line 14: re.sub(r"[^\d\.\-]", "", sum_str)
keep_number_chars(s) == SelectSeq(s, LAMBDA c : IsDigit(c) \/ c \in {".", "-"})

\* the end of the digit run that starts after position i
RECURSIVE digits_end(_, _)
digits_end(s, i) ==
    IF i < Len(s) /\ IsDigit(s[i + 1]) THEN digits_end(s, i + 1) ELSE i

\* the value of the digits s[a..b] read as a decimal integer
RECURSIVE digits_value(_, _, _)
digits_value(s, a, b) ==
    IF a > b THEN 0 ELSE digits_value(s, a, b - 1) * 10 + DigitVal(s[b])

\* line 16: float(clean_str), scanning sign, integer part, point, fraction;
\* [ok |-> FALSE] stands for ValueError
float_of(s) ==
    LET signEnd == IF s # <<>> /\ s[1] = "-" THEN 1 ELSE 0
        intEnd  == digits_end(s, signEnd)
        hasDot  == intEnd < Len(s) /\ s[intEnd + 1] = "."
        fracBeg == IF hasDot THEN intEnd + 1 ELSE intEnd
        fracEnd == IF hasDot THEN digits_end(s, fracBeg) ELSE intEnd
        nInt    == intEnd - signEnd
        nFrac   == fracEnd - fracBeg
        mag     == digits_value(s, signEnd + 1, intEnd) * Pow10(nFrac)
                   + digits_value(s, fracBeg + 1, fracEnd)
    IN  IF fracEnd = Len(s) /\ nInt + nFrac > 0
        THEN [ok |-> TRUE,
              val |-> Dec(IF signEnd = 1 THEN 0 - mag ELSE mag, nFrac)]
        ELSE [ok |-> FALSE, val |-> Zero]

\* A faulty parse_sum: the text is handed to float() as it is.
parse_sum_unfiltered(s) ==
    LET f == float_of(s)
    IN  IF f.ok THEN f.val ELSE Zero

\* lines 12-18
parse_sum(s) ==
    LET clean_str == keep_number_chars(s)
        f == float_of(clean_str)
    IN  IF f.ok THEN f.val ELSE Zero

----------------------------------------------------------------------------
(* src/budged/parser.py: DATE_PATTERN, SUM_PATTERN, _is_data_row *)

\* "$": the end of the text, or just before a newline that ends it
AtEnd(s, i) == i = Len(s) \/ (i = Len(s) - 1 /\ s[Len(s)] = "\n")

\* the end of the run of characters of the set C that starts after position i
RECURSIVE class_end(_, _, _)
class_end(s, i, C) ==
    IF i < Len(s) /\ s[i + 1] \in C THEN class_end(s, i + 1, C) ELSE i

\* A faulty DATE_PATTERN with the dots unescaped: r"^\d{2}.\d{2}.\d{4}$"
DATE_PATTERN_any_separator(s) ==
    /\ Len(s) >= 10
    /\ \A i \in {1, 2, 4, 5, 7, 8, 9, 10} : IsDigit(s[i])
    /\ s[3] # "\n" /\ s[6] # "\n"
    /\ AtEnd(s, 10)

\* line 8: DATE_PATTERN.match(s), r"^\d{2}\.\d{2}\.\d{4}$"
DATE_PATTERN_match(s) ==
    /\ Len(s) >= 10
    /\ IsDigit(s[1]) /\ IsDigit(s[2])
    /\ s[3] = "."
    /\ IsDigit(s[4]) /\ IsDigit(s[5])
    /\ s[6] = "."
    /\ IsDigit(s[7]) /\ IsDigit(s[8]) /\ IsDigit(s[9]) /\ IsDigit(s[10])
    /\ AtEnd(s, 10)

\* [\d,.]
AmountChars == Digits \cup {",", "."}

\* line 9: SUM_PATTERN.match(s), r"^-?[\d,.]+\s+KZT$"
SUM_PATTERN_match(s) ==
    LET a == IF s # <<>> /\ s[1] = "-" THEN 1 ELSE 0
        b == class_end(s, a, AmountChars)
        c == class_end(s, b, SpaceChars)
    IN  /\ b > a
        /\ c > b
        /\ Len(s) >= c + 3
        /\ s[c + 1] = "K" /\ s[c + 2] = "Z" /\ s[c + 3] = "T"
        /\ AtEnd(s, c + 3)

\* "not x" for an optional text: None or empty
Falsy(cell) == IsNone(cell) \/ cell.val = <<>>

\* A faulty _is_data_row: only the two cells it reads are required.
_is_data_row_two_cells(r) ==
    IF IsNone(r) \/ Len(r.val) < 2 THEN FALSE
    ELSE IF Falsy(r.val[1]) \/ Falsy(r.val[2]) THEN FALSE
    ELSE /\ DATE_PATTERN_match(Strip(r.val[1].val))
         /\ SUM_PATTERN_match(Strip(r.val[2].val))

\* lines 78-85
_is_data_row(r) ==
    IF IsNone(r) \/ r.val = <<>> \/ Len(r.val) < 4 THEN FALSE
    ELSE LET date  == r.val[1]
             sum_s == r.val[2]
         IN  IF Falsy(date) \/ Falsy(sum_s) THEN FALSE
             ELSE /\ DATE_PATTERN_match(Strip(date.val))
                  /\ SUM_PATTERN_match(Strip(sum_s.val))

----------------------------------------------------------------------------
(* src/budged/parser.py: parse_details.  A character outside ASCII is     *)
(* written by its code point: "U+041C" and "U+0421" are the Cyrillic       *)
(* capitals Em and Es, "U+043C" and "U+0441" the small ones.               *)

\* str.upper(), one character
Upper(c) ==
    CASE c = "a" -> "A" [] c = "b" -> "B" [] c = "c" -> "C" [] c = "d" -> "D"
      [] c = "e" -> "E" [] c = "f" -> "F" [] c = "g" -> "G" [] c = "h" -> "H"
      [] c = "i" -> "I" [] c = "j" -> "J" [] c = "k" -> "K" [] c = "l" -> "L"
      [] c = "m" -> "M" [] c = "n" -> "N" [] c = "o" -> "O" [] c = "p" -> "P"
      [] c = "q" -> "Q" [] c = "r" -> "R" [] c = "s" -> "S" [] c = "t" -> "T"
      [] c = "u" -> "U" [] c = "v" -> "V" [] c = "w" -> "W" [] c = "x" -> "X"
      [] c = "y" -> "Y" [] c = "z" -> "Z"
      [] c = "U+043C" -> "U+041C" [] c = "U+0441" -> "U+0421"
      [] OTHER -> c

UpperText(s) == [i \in 1..Len(s) |-> Upper(s[i])]

\* the pattern pat stands in s at position p
OccursAt(s, pat, p) ==
    /\ p >= 1
    /\ p + Len(pat) - 1 <= Len(s)
    /\ SubSeq(s, p, p + Len(pat) - 1) = pat

\* "pat in s"
Contains(s, pat) == \E p \in 1..(Len(s) + 1) : OccursAt(s, pat, p)

\* the smallest member of a non-empty set of positions
MinOf(S) == CHOOSE p \in S : \A q \in S : p <= q

MCC_LATIN == <<"M", "C", "C", ":">>

MCC_CYRILLIC == <<"U+041C", "U+0421", "U+0421", ":">>

\* r"MCC:\s*(\d{4})|<Cyrillic MCC>:\s*(\d{4})" with re.IGNORECASE, tried at
\* position p: the position after the label and whitespace where four
\* digits stand, or 0
mcc_match_at(s, p) ==
    LET u == UpperText(s)
        labelled == OccursAt(u, MCC_LATIN, p) \/ OccursAt(u, MCC_CYRILLIC, p)
        d == class_end(s, p + 3, SpaceChars)
    IN  IF labelled /\ class_end(s, d, Digits) >= d + 4 THEN d + 1 ELSE 0

\* lines 32-34: re.search, the leftmost match
mcc_search(s) ==
    LET hits == {p \in 1..Len(s) : mcc_match_at(s, p) > 0}
    IN  IF hits = {} THEN None
        ELSE LET d == mcc_match_at(s, MinOf(hits))
             IN  Some(SubSeq(s, d, d + 3))

APPLE_PAY == <<"A", "P", "P", "L", "E", " ", "P", "A", "Y">>

\* lines 39-46, in the order of the dict
bank_keywords ==
    << [name |-> "Halyk Bank",
        keywords |-> << <<"J", "S", "C", " ", "H", "a", "l", "y", "k", " ", "B", "a", "n", "k">>,
                        <<"H", "a", "l", "y", "k", " ", "B", "a", "n", "k">> >>],
       [name |-> "Kaspi Bank",
        keywords |-> << <<"K", "a", "s", "p", "i", " ", "B", "a", "n", "k">> >>],
       [name |-> "Freedom Bank",
        keywords |-> << <<"F", "r", "e", "e", "d", "o", "m", " ", "B", "a", "n", "k">> >>],
       [name |-> "Jusan Bank",
        keywords |-> << <<"J", "u", "s", "a", "n", " ", "B", "a", "n", "k">> >>],
       [name |-> "Bereke Bank",
        keywords |-> << <<"B", "e", "r", "e", "k", "e", " ", "B", "a", "n", "k">> >>],
       [name |-> "BCC",
        keywords |-> << <<"B", "C", "C">> >>] >>

\* A faulty search: the last bank of the list with a keyword in the text.
bank_search_last(s, i) ==
    LET hits == {j \in i..Len(bank_keywords) :
                    \E k \in 1..Len(bank_keywords[j].keywords) :
                        Contains(s, bank_keywords[j].keywords[k])}
    IN  IF hits = {} THEN None
        ELSE Some(bank_keywords[CHOOSE j \in hits : \A h \in hits : h <= j].name)

\* lines 47-50: the first bank, from position i of the list, with a keyword
\* in the text
RECURSIVE bank_search(_, _)
bank_search(s, i) ==
    IF i > Len(bank_keywords) THEN None
    ELSE IF \E k \in 1..Len(bank_keywords[i].keywords) :
                Contains(s, bank_keywords[i].keywords[k])
         THEN Some(bank_keywords[i].name)
         ELSE bank_search(s, i + 1)

RECEIVER == <<"R", "e", "c", "e", "i", "v", "e", "r", ":">>

\* [\d\*]
AccountChars == Digits \cup {"*"}

\* r"Receiver:\s*([\d\*]+)" tried at position p: the position where the
\* account starts, or 0
receiver_match_at(s, p) ==
    LET d == class_end(s, p + Len(RECEIVER) - 1, SpaceChars)
    IN  IF OccursAt(s, RECEIVER, p) /\ class_end(s, d, AccountChars) > d
        THEN d + 1 ELSE 0

\* line 52: re.search, the leftmost match; the account is group 1
receiver_search(s) ==
    LET hits == {p \in 1..Len(s) : receiver_match_at(s, p) > 0}
    IN  IF hits = {} THEN None
        ELSE LET d == receiver_match_at(s, MinOf(hits))
             IN  Some(SubSeq(s, d, class_end(s, d - 1, AccountChars)))

\* line 56: details_str.split(",")
RECURSIVE split_comma(_, _)
split_comma(s, part) ==
    IF s = <<>> THEN <<part>>
    ELSE IF Head(s) = "," THEN <<part>> \o split_comma(Tail(s), <<>>)
    ELSE split_comma(Tail(s), Append(part, Head(s)))

NoDetails ==
    [raw |-> <<>>, merchant |-> None, bank |-> None, mcc |-> None,
     payment_method |-> None, receiver_account |-> None]

\* A faulty parse_details: the merchant is taken whenever there is a comma.
parse_details_merchant_always(s) ==
    LET parts == split_comma(s, <<>>)
    IN  [raw |-> Strip(s),
         merchant |-> IF Len(parts) > 1 THEN Some(Strip(parts[1])) ELSE None,
         bank |-> bank_search(s, 1),
         mcc |-> mcc_search(s),
         payment_method |-> IF Contains(UpperText(s), APPLE_PAY)
                            THEN Some("APPLE PAY") ELSE None,
         receiver_account |-> receiver_search(s)]

\* lines 21-60
parse_details(s) ==
    LET receiver_match == receiver_search(s)
        parts == split_comma(s, <<>>)
    IN  [raw |-> Strip(s),
         merchant |-> IF Len(parts) > 1 /\ IsNone(receiver_match)
                      THEN Some(Strip(parts[1])) ELSE None,
         bank |-> bank_search(s, 1),
         mcc |-> mcc_search(s),
         payment_method |-> IF Contains(UpperText(s), APPLE_PAY)
                            THEN Some("APPLE PAY") ELSE None,
         receiver_account |-> receiver_match]

----------------------------------------------------------------------------
(* src/budged/parser.py: parse_row, parse_transactions, parse_pdf *)

\* lines 63-70
parse_row(date, sum_s, description, details_s) ==
    [Date |-> Strip(date),
     Sum |-> parse_sum(sum_s),
     Description |-> Strip(description),
     Details |-> parse_details(details_s)]

\* A faulty parse_transactions: the transactions come out in reverse order.
parse_transactions_reversed(raw_data) ==
    [i \in 1..Len(raw_data) |->
        LET j == Len(raw_data) + 1 - i
        IN  parse_row(raw_data[j][1], raw_data[j][2], raw_data[j][3], raw_data[j][4])]

\* lines 73-75
parse_transactions(raw_data) ==
    [i \in 1..Len(raw_data) |->
        parse_row(raw_data[i][1], raw_data[i][2], raw_data[i][3], raw_data[i][4])]

\* A faulty loop body: a row is kept when it has four cells with a date and
\* an amount, whatever their texts.
pdf_row_keep_filled(out, r) ==
    IF IsNone(r) \/ Len(r.val) < 4 \/ Falsy(r.val[1]) \/ Falsy(r.val[2])
    THEN [raised |-> FALSE, rows |-> out]
    ELSE IF IsNone(r.val[3])
    THEN [raised |-> TRUE, rows |-> out]
    ELSE [raised |-> FALSE,
          rows |-> Append(out, <<Strip(r.val[1].val), Strip(r.val[2].val),
                                 Strip(r.val[3].val), _clean_details(r.val[4])>>)]

\* lines 115-121: the body of the innermost loop for one row; raised stands
\* for the AttributeError of None.strip() at line 119
pdf_row(out, r) ==
    IF ~_is_data_row(r)
    THEN [raised |-> FALSE, rows |-> out]
    ELSE IF IsNone(r.val[3])
    THEN [raised |-> TRUE, rows |-> out]
    ELSE [raised |-> FALSE,
          rows |-> Append(out, <<Strip(r.val[1].val), Strip(r.val[2].val),
                                 Strip(r.val[3].val), _clean_details(r.val[4])>>)]

----------------------------------------------------------------------------
(* src/budged/formatter.py.  Python compares str values character by      *)
(* character on their code points.  A kind or category name is a string    *)
(* of this model; code_points gives its characters.  A report is modelled  *)
(* by its style, its displayed rows in order and its summary figures; the  *)
(* drawing of the lines is outside this model.                             *)

\* the printable ASCII characters, from code point 32 on; the double quote,
\* the backslash and the grave accent are written by their code points
ASCII ==
    <<" ", "!", "U+0022", "#", "$", "%", "&", "'", "(", ")", "*", "+", ",",
      "-", ".", "/", "0", "1", "2", "3", "4", "5", "6", "7", "8", "9", ":",
      ";", "<", "=", ">", "?", "@", "A", "B", "C", "D", "E", "F", "G", "H",
      "I", "J", "K", "L", "M", "N", "O", "P", "Q", "R", "S", "T", "U", "V",
      "W", "X", "Y", "Z", "[", "U+005C", "]", "^", "_", "U+0060", "a", "b", "c", "d",
      "e", "f", "g", "h", "i", "j", "k", "l", "m", "n", "o", "p", "q", "r",
      "s", "t", "u", "v", "w", "x", "y", "z", "{", "|", "}", "~">>

\* ord(c)
ord(c) ==
    IF c = "\n" THEN 10
    ELSE IF c = "\t" THEN 9
    ELSE 31 + (CHOOSE i \in 1..Len(ASCII) : ASCII[i] = c)

\* the characters of the names that occur as kinds, categories and groups
code_points(n) ==
    CASE n = "Purchase" ->
          <<"P", "u", "r", "c", "h", "a", "s", "e">>
      [] n = "Purchase with bonuses" ->
          <<"P", "u", "r", "c", "h", "a", "s", "e", " ", "w", "i", "t",
            "h", " ", "b", "o", "n", "u", "s", "e", "s">>
      [] n = "Saved with bonuses" ->
          <<"S", "a", "v", "e", "d", " ", "w", "i", "t", "h", " ", "b",
            "o", "n", "u", "s", "e", "s">>
      [] n = "Transfer" ->
          <<"T", "r", "a", "n", "s", "f", "e", "r">>
      [] n = "No MCC" ->
          <<"N", "o", " ", "M", "C", "C">>
      [] n = "Unknown/No MCC" ->
          <<"U", "n", "k", "n", "o", "w", "n", "/", "N", "o", " ", "M",
            "C", "C">>
      [] n = "Grocery Stores, Supermarkets" ->
          <<"G", "r", "o", "c", "e", "r", "y", " ", "S", "t", "o", "r",
            "e", "s", ",", " ", "S", "u", "p", "e", "r", "m", "a", "r", "k",
            "e", "t", "s">>
      [] n = "Fast Food Restaurants" ->
          <<"F", "a", "s", "t", " ", "F", "o", "o", "d", " ", "R", "e",
            "s", "t", "a", "u", "r", "a", "n", "t", "s">>
      [] n = "Food & Dining" ->
          <<"F", "o", "o", "d", " ", "&", " ", "D", "i", "n", "i", "n",
            "g">>
      [] n = "Transfers/Other" ->
          <<"T", "r", "a", "n", "s", "f", "e", "r", "s", "/", "O", "t",
            "h", "e", "r">>
      [] n = "Other Uncategorized" ->
          <<"O", "t", "h", "e", "r", " ", "U", "n", "c", "a", "t", "e",
            "g", "o", "r", "i", "z", "e", "d">>

\* a < b for two texts given by their characters
RECURSIVE text_less(_, _)
text_less(a, b) ==
    IF b = <<>> THEN FALSE
    ELSE IF a = <<>> THEN TRUE
    ELSE IF Head(a) # Head(b) THEN ord(Head(a)) < ord(Head(b))
    ELSE text_less(Tail(a), Tail(b))

\* a < b for two str values
str_less(a, b) == text_less(code_points(a), code_points(b))

\* a < b for two lists (or tuples) of texts
RECURSIVE texts_less(_, _)
texts_less(a, b) ==
    IF b = <<>> THEN FALSE
    ELSE IF a = <<>> THEN TRUE
    ELSE IF Head(a) # Head(b) THEN text_less(Head(a), Head(b))
    ELSE texts_less(Tail(a), Tail(b))

\* a < b for two sort keys of one call: numbers, or lists of texts
key_less(a, b) ==
    IF "num" \in DOMAIN a THEN a.num < b.num ELSE texts_less(a.texts, b.texts)

\* sorted(): one step of a stable sort, x goes before the first element
\* whose key is greater
RECURSIVE insert_sorted(_, _)
insert_sorted(out, x) ==
    IF out = <<>> THEN <<x>>
    ELSE IF key_less(x.k, Head(out).k) THEN <<x>> \o out
    ELSE <<Head(out)>> \o insert_sorted(Tail(out), x)

\* sorted(): the items of keyed, each [item, k], in the order of their keys
RECURSIVE sorted_from(_, _, _)
sorted_from(out, keyed, i) ==
    IF i > Len(keyed) THEN [j \in 1..Len(out) |-> out[j].item]
    ELSE sorted_from(insert_sorted(out, keyed[i]), keyed, i + 1)

sorted(keyed) == sorted_from(<<>>, keyed, 1)

\* lines 15-19
_sort_key(item, sb) ==
    IF sb = "name"
    THEN [texts |-> <<code_points(item.key[1]), code_points(item.key[2])>>]
    ELSE [num |-> item.val]

\* A faulty loop body: the "Saved with bonuses" entries are displayed too.
aggregated_item_bonus_shown(acc, item) ==
    LET desc == item.key[1]
        total == item.val
    IN  [purchase_total |-> IF desc = "Purchase" THEN acc.purchase_total + total
                            ELSE acc.purchase_total,
         bonuses_total |-> IF desc = "Saved with bonuses"
                           THEN acc.bonuses_total + total ELSE acc.bonuses_total,
         display_items |-> Append(acc.display_items, <<desc, item.key[2], total>>)]

\* lines 75-81: the body of the loop, for one entry
aggregated_item(acc, item) ==
    LET desc == item.key[1]
        total == item.val
    IN  IF desc = "Saved with bonuses"
        THEN [acc EXCEPT !.bonuses_total = @ + total]
        ELSE [purchase_total |-> IF desc = "Purchase"
                                 THEN acc.purchase_total + total
                                 ELSE acc.purchase_total,
              bonuses_total |-> acc.bonuses_total,
              display_items |-> Append(acc.display_items,
                                       <<desc, item.key[2], total>>)]

RECURSIVE aggregated_loop(_, _, _)
aggregated_loop(acc, items, i) ==
    IF i > Len(items) THEN acc
    ELSE aggregated_loop(aggregated_item(acc, items[i]), items, i + 1)

\* lines 62-99; both renderings carry the same rows and summary figures
format_aggregated(agg, sb, f) ==
    LET sorted_items ==
            sorted([i \in 1..Len(agg) |->
                       [item |-> agg[i], k |-> _sort_key(agg[i], sb)]])
        acc == aggregated_loop([purchase_total |-> 0, bonuses_total |-> 0,
                                display_items |-> <<>>], sorted_items, 1)
    IN  [style |-> IF f = "ascii" THEN "ascii" ELSE "simple",
         display_items |-> acc.display_items,
         purchase_total |-> acc.purchase_total,
         bonuses_total |-> acc.bonuses_total,
         net_purchases |-> acc.purchase_total + acc.bonuses_total]

\* str.split(sep)
RECURSIVE split_on(_, _, _)
split_on(s, sep, part) ==
    IF s = <<>> THEN <<part>>
    ELSE IF Head(s) = sep THEN <<part>> \o split_on(Tail(s), sep, <<>>)
    ELSE split_on(Tail(s), sep, Append(part, Head(s)))

\* seq[::-1]
Reversed(s) == [i \in 1..Len(s) |-> s[Len(s) + 1 - i]]

\* A faulty sort key: the date is compared as the text it is written in.
raw_sort_key_date_text(r, sb) ==
    IF sb = "date" THEN Some([texts |-> <<r.Date>>])
    ELSE IF sb = "sum" THEN Some([num |-> r.Sum])
    ELSE IF sb = "name"
    THEN Some([texts |-> <<code_points(r.Description), r.Details.raw>>])
    ELSE None

\* lines 108-115: the sort key of a row, or None when the list is not sorted
raw_sort_key(r, sb) ==
    IF sb = "date" THEN Some([texts |-> Reversed(split_on(r.Date, ".", <<>>))])
    ELSE IF sb = "sum" THEN Some([num |-> r.Sum])
    ELSE IF sb = "name"
    THEN Some([texts |-> <<code_points(r.Description), r.Details.raw>>])
    ELSE None

\* lines 108-115
sorted_data_of(parsed_data, sb) ==
    IF sb \in {"date", "sum", "name"}
    THEN sorted([i \in 1..Len(parsed_data) |->
                    [item |-> parsed_data[i],
                     k |-> raw_sort_key(parsed_data[i], sb).val]])
    ELSE parsed_data

\* receiver[-4:]
LastFour(t) == IF Len(t) <= 4 THEN t ELSE SubSeq(t, Len(t) - 3, Len(t))

CARD == <<"c", "a", "r", "d", " ", "*">>

\* A faulty loop body: a bonus row keeps its label and is left out of the
\* purchase total.
raw_report_row_bonus_apart(acc, r) ==
    LET desc == r.Description
        amount == r.Sum
        mcc == IF IsNone(r.Details.mcc) THEN <<>> ELSE r.Details.mcc.val
        receiver == r.Details.receiver_account
        label == IF ~IsNone(receiver) /\ receiver.val # <<>>
                 THEN CARD \o LastFour(receiver.val)
                 ELSE IF IsNone(r.Details.merchant) THEN <<>>
                 ELSE r.Details.merchant.val
    IN  [grand_total |-> acc.grand_total + amount,
         bonuses_total |-> IF desc = "Purchase with bonuses"
                           THEN acc.bonuses_total + amount
                           ELSE acc.bonuses_total,
         purchase_total |-> IF desc = "Purchase"
                            THEN acc.purchase_total + amount
                            ELSE acc.purchase_total,
         display_rows |-> Append(acc.display_rows,
                                 <<r.Date, desc, label, mcc, amount>>)]

\* lines 122-139: the body of the loop, for one row
raw_report_row(acc, r) ==
    LET desc0 == r.Description
        amount == r.Sum
        bonus == desc0 = "Purchase with bonuses"
        desc == IF bonus THEN "Purchase" ELSE desc0
        mcc == IF IsNone(r.Details.mcc) THEN <<>> ELSE r.Details.mcc.val
        receiver == r.Details.receiver_account
        label == IF ~IsNone(receiver) /\ receiver.val # <<>>
                 THEN CARD \o LastFour(receiver.val)
                 ELSE IF IsNone(r.Details.merchant) THEN <<>>
                 ELSE r.Details.merchant.val
    IN  [grand_total |-> acc.grand_total + amount,
         bonuses_total |-> IF bonus THEN acc.bonuses_total + amount
                           ELSE acc.bonuses_total,
         purchase_total |-> IF bonus \/ desc0 = "Purchase"
                            THEN acc.purchase_total + amount
                            ELSE acc.purchase_total,
         display_rows |-> Append(acc.display_rows,
                                 <<r.Date, desc, label, mcc, amount>>)]

RECURSIVE raw_report_loop(_, _, _)
raw_report_loop(acc, sorted_data, i) ==
    IF i > Len(sorted_data) THEN acc
    ELSE raw_report_loop(raw_report_row(acc, sorted_data[i]), sorted_data, i + 1)

\* lines 102-160; both renderings carry the same rows and summary figures
format_raw_report(parsed_data, sb, f) ==
    LET acc == raw_report_loop([grand_total |-> 0, bonuses_total |-> 0,
                                purchase_total |-> 0, display_rows |-> <<>>],
                               sorted_data_of(parsed_data, sb), 1)
    IN  [style |-> IF f = "ascii" THEN "ascii" ELSE "simple",
         display_rows |-> acc.display_rows,
         purchase_total |-> acc.purchase_total,
         bonuses_total |-> acc.bonuses_total,
         net_purchases |-> acc.purchase_total - acc.bonuses_total,
         grand_total |-> acc.grand_total]

----------------------------------------------------------------------------
(* src/mcp_server.py: the tools, from the parsed list on *)

\* lines 169-173: the body of the loop, for one entry
summary_category_item(categories, item) ==
    IF item.key[1] = "Saved with bonuses" THEN categories
    ELSE DictAdd(categories, item.key[2], item.val)

RECURSIVE summary_categories_loop(_, _, _)
summary_categories_loop(categories, agg, i) ==
    IF i > Len(agg) THEN categories
    ELSE summary_categories_loop(summary_category_item(categories, agg[i]),
                                 agg, i + 1)

\* lines 168-173 and 180: the categories, sorted by their totals
summary_categories(agg) ==
    LET categories == summary_categories_loop(EmptyDict, agg, 1)
    IN  sorted([i \in 1..Len(categories) |->
                   [item |-> categories[i], k |-> [num |-> categories[i].val]]])

\* lines 153-183
spending_summary(parsed_list, group_by, sb, output_format) ==
    LET agg == IF group_by = "mcc"
               THEN group_by_description_and_mcc(parsed_list)
               ELSE group_by_description_and_mcc_group(parsed_list)
        sort == IF sb \notin {"sum", "name"} THEN "sum" ELSE sb
    IN  IF output_format \in {"ascii", "simple"}
        THEN format_aggregated(agg, sort, output_format)
        ELSE [group_by |-> group_by,
              categories |-> summary_categories(agg),
              totals |-> compute_purchase_totals(parsed_list)]

\* lines 204-211
raw_transactions_report(parsed_list, sb, output_format) ==
    LET sort == IF sb \notin {"sum", "name", "date"} THEN "sum" ELSE sb
        style == IF output_format \in {"ascii", "simple"}
                 THEN output_format ELSE "ascii"
    IN  format_raw_report(parsed_list, sort, style)

----------------------------------------------------------------------------
(* src/reporter.py: the copy of the pipeline the tests exercise *)

\* lines 8-34
reporter_mcc2name ==
    ("5411" :> "Grocery Stores, Supermarkets" @@
     "5814" :> "Fast Food Restaurants" @@
     "5812" :> "Eating Places, Restaurants" @@
     "5977" :> "Cosmetic Stores" @@
     "5943" :> "Stationery, Office Supplies" @@
     "5199" :> "Nondurable Goods" @@
     "4121" :> "Taxicabs and Limousines" @@
     "5995" :> "Pet Shops" @@
     "5691" :> "Men's and Women's Clothing Stores" @@
     "5200" :> "Home Supply Warehouse Stores" @@
     "5311" :> "Department Stores" @@
     "7941" :> "Athletic Fields, Commercial Sports" @@
     "5262" :> "Marketplaces" @@
     "5912" :> "Drug Stores and Pharmacies" @@
     "5541" :> "Service Stations (Gas)" @@
     "8099" :> "Medical Services" @@
     "5331" :> "Variety Stores" @@
     "4829" :> "Money Orders / Wire Transfer" @@
     "4215" :> "Courier Services" @@
     "1750" :> "Carpentry Contractors" @@
     "7832" :> "Motion Picture Theaters" @@
     "5641" :> "Children's and Infant's Wear Stores" @@
     "3068" :> "Airlines" @@
     "5499" :> "Miscellaneous Food Stores" @@
     "8071" :> "Dental and Medical Laboratories")

\* lines 37-62, in the order of the dict
mccGroups ==
    << [group |-> "Food & Dining",
        names |-> <<"Grocery Stores, Supermarkets",
                    "Fast Food Restaurants", "Eating Places, Restaurants",
                    "Miscellaneous Food Stores">>],
       [group |-> "Transport",
        names |-> <<"Taxicabs and Limousines", "Airlines",
                    "Service Stations (Gas)">>],
       [group |-> "Shopping",
        names |-> <<"Cosmetic Stores", "Stationery, Office Supplies",
                    "Nondurable Goods",
                    "Men's and Women's Clothing Stores",
                    "Department Stores", "Marketplaces", "Variety Stores",
                    "Children's and Infant's Wear Stores",
                    "Home Supply Warehouse Stores">>],
       [group |-> "Health & Beauty",
        names |-> <<"Drug Stores and Pharmacies", "Medical Services",
                    "Dental and Medical Laboratories">>],
       [group |-> "Entertainment",
        names |-> <<"Athletic Fields, Commercial Sports",
                    "Motion Picture Theaters">>],
       [group |-> "Services",
        names |-> <<"Courier Services", "Carpentry Contractors",
                    "Money Orders / Wire Transfer">>],
       [group |-> "Pets",
        names |-> <<"Pet Shops">>] >>

\* lines 65-68: the loops assign name_to_group[name] = group in the order
\* of mccGroups, so the last group that lists a name stays
reporter_name_to_group ==
    LET places(n) == {g \in 1..Len(mccGroups) :
                        \E i \in 1..Len(mccGroups[g].names) :
                            mccGroups[g].names[i] = n}
        names == UNION {{mccGroups[g].names[i] :
                            i \in 1..Len(mccGroups[g].names)} :
                           g \in 1..Len(mccGroups)}
    IN  [n \in names |->
            mccGroups[CHOOSE g \in places(n) : \A h \in places(n) : h <= g].group]

\* line 72: re.sub(r'[^\d\.-]', '', sum_str)
reporter_clean_str(s) ==
    SelectSeq(s, LAMBDA c : ~(~IsDigit(c) /\ c # "." /\ c # "-"))

\* lines 70-76
reporter_parse_sum(s) ==
    LET f == float_of(reporter_clean_str(s))
    IN  IF f.ok THEN f.val ELSE Zero

\* A faulty chain: "Kaspi Bank" is tested before the Halyk keywords.
reporter_bank_kaspi_first(s) ==
    IF Contains(s, <<"K", "a", "s", "p", "i", " ", "B", "a", "n", "k">>)
    THEN Some("Kaspi Bank")
    ELSE IF Contains(s, <<"J", "S", "C", " ", "H", "a", "l", "y", "k", " ", "B", "a", "n", "k">>) \/
            Contains(s, <<"H", "a", "l", "y", "k", " ", "B", "a", "n", "k">>)
    THEN Some("Halyk Bank")
    ELSE IF Contains(s, <<"F", "r", "e", "e", "d", "o", "m", " ", "B", "a", "n", "k">>)
    THEN Some("Freedom Bank")
    ELSE IF Contains(s, <<"J", "u", "s", "a", "n", " ", "B", "a", "n", "k">>)
    THEN Some("Jusan Bank")
    ELSE IF Contains(s, <<"B", "e", "r", "e", "k", "e", " ", "B", "a", "n", "k">>)
    THEN Some("Bereke Bank")
    ELSE IF Contains(s, <<"B", "C", "C">>)
    THEN Some("BCC")
    ELSE None

\* lines 99-110: the if/elif chain
reporter_bank(s) ==
    IF Contains(s, <<"J", "S", "C", " ", "H", "a", "l", "y", "k", " ", "B", "a", "n", "k">>) \/
            Contains(s, <<"H", "a", "l", "y", "k", " ", "B", "a", "n", "k">>)
    THEN Some("Halyk Bank")
    ELSE IF Contains(s, <<"K", "a", "s", "p", "i", " ", "B", "a", "n", "k">>)
    THEN Some("Kaspi Bank")
    ELSE IF Contains(s, <<"F", "r", "e", "e", "d", "o", "m", " ", "B", "a", "n", "k">>)
    THEN Some("Freedom Bank")
    ELSE IF Contains(s, <<"J", "u", "s", "a", "n", " ", "B", "a", "n", "k">>)
    THEN Some("Jusan Bank")
    ELSE IF Contains(s, <<"B", "e", "r", "e", "k", "e", " ", "B", "a", "n", "k">>)
    THEN Some("Bereke Bank")
    ELSE IF Contains(s, <<"B", "C", "C">>)
    THEN Some("BCC")
    ELSE None

\* lines 78-122
reporter_parse_details(s) ==
    LET receiver_match == receiver_search(s)
        parts == split_comma(s, <<>>)
    IN  [raw |-> Strip(s),
         merchant |-> IF Len(parts) > 1 /\ IsNone(receiver_match)
                      THEN Some(Strip(parts[1])) ELSE None,
         bank |-> reporter_bank(s),
         mcc |-> mcc_search(s),
         payment_method |-> IF Contains(UpperText(s), APPLE_PAY)
                            THEN Some("APPLE PAY") ELSE None,
         receiver_account |-> receiver_match]

\* lines 143-153: the body of the loop, for one row
reporter_group_row(agg, row) ==
    LET desc     == row.Description
        mcc_code == row.Details.mcc
        mcc_name == IF ~IsNone(mcc_code) /\ mcc_code.val # ""
                    THEN (IF mcc_code.val \in DOMAIN reporter_mcc2name
                          THEN reporter_mcc2name[mcc_code.val]
                          ELSE "Unknown/No MCC")
                    ELSE "No MCC"
    IN  IF desc = "Purchase with bonuses"
        THEN DictAdd(DictAdd(agg, <<"Purchase", mcc_name>>, row.Sum),
                     <<"Saved with bonuses", mcc_name>>, row.Sum)
        ELSE DictAdd(agg, <<desc, mcc_name>>, row.Sum)

RECURSIVE reporter_group_loop(_, _, _)
reporter_group_loop(agg, txns, i) ==
    IF i > Len(txns) THEN agg
    ELSE reporter_group_loop(reporter_group_row(agg, txns[i]), txns, i + 1)

\* lines 133-154
reporter_group_by_description_and_mcc(txns) ==
    reporter_group_loop(EmptyDict, txns, 1)

\* lines 168-175: the body of the loop, for one entry
reporter_group_item(group_agg, item) ==
    LET desc     == item.key[1]
        mcc_name == item.key[2]
        group_name == IF mcc_name = "No MCC" THEN "Transfers/Other"
                      ELSE IF mcc_name \in DOMAIN reporter_name_to_group
                      THEN reporter_name_to_group[mcc_name]
                      ELSE "Other Uncategorized"
    IN  DictAdd(group_agg, <<desc, group_name>>, item.val)

RECURSIVE reporter_group_items_loop(_, _, _)
reporter_group_items_loop(group_agg, base, i) ==
    IF i > Len(base) THEN group_agg
    ELSE reporter_group_items_loop(reporter_group_item(group_agg, base[i]),
                                   base, i + 1)

\* lines 157-177
reporter_group_by_description_and_mcc_group(txns) ==
    reporter_group_items_loop(EmptyDict,
                              reporter_group_by_description_and_mcc(txns), 1)

\* lines 183-190
reporter__is_data_row(r) ==
    IF IsNone(r) \/ r.val = <<>> \/ Len(r.val) < 4 THEN FALSE
    ELSE LET date  == r.val[1]
             sum_s == r.val[2]
             desc  == r.val[3]
         IN  IF Falsy(date) \/ Falsy(sum_s) THEN FALSE
             ELSE /\ DATE_PATTERN_match(Strip(date.val))
                  /\ SUM_PATTERN_match(Strip(sum_s.val))

\* lines 193-200
reporter__clean_details(d) ==
    IF IsNone(d) \/ d.val = <<>> THEN <<>>
    ELSE LET cleaned1 == sub_newline_plain(d.val)
             cleaned2 == sub_newline_after_punct(cleaned1)
             cleaned3 == sub_whitespace_runs(cleaned2)
         IN  Strip(cleaned3)

----------------------------------------------------------------------------
(* The aggregation specification: a transaction list is built row by row,  *)
(* then aggregated and totalled.                                           *)

Kinds == {"Purchase", "Purchase with bonuses", "Transfer"}

Amounts == {-150000, 1000}

Codes == {None, Some("5411"), Some("9999")}

Txn(desc, amount, mcc) ==
    [Description |-> desc, Sum |-> amount, Details |-> [mcc |-> mcc]]

NoTotals ==
    [purchase_total |-> 0, bonuses_total |-> 0, net_purchases |-> 0,
     grand_total |-> 0, income_total |-> 0]

AggIdle ==
    /\ data = <<>>
    /\ aggregated = EmptyDict
    /\ totals = NoTotals
    /\ aggPc = "input"

CleanIdle ==
    /\ details = None
    /\ cleaned = <<>>
    /\ recleaned = <<>>
    /\ cleanPc = "input"

SumIdle ==
    /\ sum_str = <<>>
    /\ sum_val = Zero
    /\ sumPc = "input"

RowIdle ==
    /\ raw_row = None
    /\ accepted = FALSE
    /\ rowPc = "input"

DetIdle ==
    /\ details_str = <<>>
    /\ details_map = NoDetails
    /\ detPc = "input"

PdfIdle ==
    /\ pdf_exists = FALSE
    /\ pages = <<>>
    /\ rows = <<>>
    /\ parsed = <<>>
    /\ pdfPc = "start"
    /\ caller = "direct"
    /\ tool_result = None

GroupIdle == group_aggregated = EmptyDict

\* src/budged/categories.py after the import: both tables are complete
CategoriesImported ==
    /\ mcc_groups_now = mcc_groups
    /\ name_to_group_now = name_to_group
    /\ imported = Len(import_order(mcc_groups, 1, 1))

SummaryIdle == raw_report = None

CopyIdle == reporter_fn = "none" /\ reporter_result = None

BuildIdle ==
    /\ tuple_in = <<>>
    /\ txn = None
    /\ buildPc = "input"

FmtIdle ==
    /\ agg_in = EmptyDict
    /\ parsed_in = <<>>
    /\ sort_by = "sum"
    /\ fmt = "ascii"
    /\ report = None
    /\ fmtPc = "input"

InitAgg ==
    /\ AggIdle /\ CleanIdle /\ SumIdle /\ RowIdle /\ DetIdle /\ PdfIdle
    /\ CategoriesImported /\ SummaryIdle /\ CopyIdle
    /\ GroupIdle /\ BuildIdle /\ FmtIdle

AddTransaction ==
    /\ aggPc = "input"
    /\ Len(data) < MaxTxns
    /\ \E desc \in Kinds, amount \in Amounts, mcc \in Codes :
          data' = Append(data, Txn(desc, amount, mcc))
    /\ UNCHANGED <<aggregated, totals, aggPc>>
    /\ UNCHANGED <<cleanVars, sumVars, rowVars, detVars, pdfVars,
                 toolVars, groupVars, buildVars, fmtVars,
                 tableVars, summaryVars, copyVars>>

Aggregate ==
    /\ aggPc = "input"
    /\ aggregated' = group_by_description_and_mcc(data)
    /\ totals' = compute_purchase_totals(data)
    /\ aggPc' = "done"
    /\ UNCHANGED data
    /\ UNCHANGED <<cleanVars, sumVars, rowVars, detVars, pdfVars,
                 toolVars, groupVars, buildVars, fmtVars,
                 tableVars, summaryVars, copyVars>>

NextAgg == AddTransaction \/ Aggregate

SpecAgg == InitAgg /\ [][NextAgg]_vars

----------------------------------------------------------------------------
(* The grouping specification: a transaction list with known, unknown,     *)
(* empty and absent codes is aggregated by category and rolled up into     *)
(* groups.                                                                 *)

GroupCodes == {None, Some(""), Some("5411"), Some("5814"), Some("9999")}

InitGroup ==
    /\ AggIdle /\ CleanIdle /\ SumIdle /\ RowIdle /\ DetIdle /\ PdfIdle
    /\ CategoriesImported /\ SummaryIdle /\ CopyIdle
    /\ GroupIdle /\ BuildIdle /\ FmtIdle

AddCodedTransaction ==
    /\ aggPc = "input"
    /\ Len(data) < MaxGroupTxns
    /\ \E desc \in Kinds, amount \in Amounts, mcc \in GroupCodes :
          data' = Append(data, Txn(desc, amount, mcc))
    /\ UNCHANGED <<aggregated, totals, aggPc, group_aggregated>>
    /\ UNCHANGED <<cleanVars, sumVars, rowVars, detVars, pdfVars,
                 toolVars, buildVars, fmtVars,
                 tableVars, summaryVars, copyVars>>

\* src/budged/aggregator.py lines 31-47; aggregated holds base
AggregateGroups ==
    /\ aggPc = "input"
    /\ aggregated' = group_by_description_and_mcc(data)
    /\ group_aggregated' = group_by_description_and_mcc_group(data)
    /\ aggPc' = "done"
    /\ UNCHANGED <<data, totals>>
    /\ UNCHANGED <<cleanVars, sumVars, rowVars, detVars, pdfVars,
                 toolVars, buildVars, fmtVars,
                 tableVars, summaryVars, copyVars>>

NextGroup == AddCodedTransaction \/ AggregateGroups

SpecGroup == InitGroup /\ [][NextGroup]_vars

----------------------------------------------------------------------------
(* The cleaning specification: a details cell is cleaned, and the result   *)
(* cleaned again.                                                          *)

CleanAlphabet == {"a", ",", ".", "\n", " ", "\t"}

InitClean ==
    /\ AggIdle /\ SumIdle /\ RowIdle /\ DetIdle /\ PdfIdle
    /\ CategoriesImported /\ SummaryIdle /\ CopyIdle
    /\ GroupIdle /\ BuildIdle /\ FmtIdle
    /\ details \in {None} \cup {Some(t) : t \in Texts(CleanAlphabet, MaxText)}
    /\ cleaned = <<>>
    /\ recleaned = <<>>
    /\ cleanPc = "input"

Clean ==
    /\ cleanPc = "input"
    /\ cleaned' = _clean_details(details)
    /\ cleanPc' = "cleaned"
    /\ UNCHANGED <<details, recleaned>>
    /\ UNCHANGED <<aggVars, sumVars, rowVars, detVars, pdfVars,
                 toolVars, groupVars, buildVars, fmtVars,
                 tableVars, summaryVars, copyVars>>

CleanAgain ==
    /\ cleanPc = "cleaned"
    /\ recleaned' = _clean_details(Some(cleaned))
    /\ cleanPc' = "recleaned"
    /\ UNCHANGED <<details, cleaned>>
    /\ UNCHANGED <<aggVars, sumVars, rowVars, detVars, pdfVars,
                 toolVars, groupVars, buildVars, fmtVars,
                 tableVars, summaryVars, copyVars>>

NextClean == Clean \/ CleanAgain

SpecClean == InitClean /\ [][NextClean]_vars

----------------------------------------------------------------------------
(* The amount specification: a text is handed to parse_sum.                *)

SumAlphabet == {"0", "7", ".", "-", ",", "K", " "}

InitSum ==
    /\ AggIdle /\ CleanIdle /\ RowIdle /\ DetIdle /\ PdfIdle
    /\ CategoriesImported /\ SummaryIdle /\ CopyIdle
    /\ GroupIdle /\ BuildIdle /\ FmtIdle
    /\ sum_str \in Texts(SumAlphabet, MaxSumText)
    /\ sum_val = Zero
    /\ sumPc = "input"

ParseSum ==
    /\ sumPc = "input"
    /\ sum_val' = parse_sum(sum_str)
    /\ sumPc' = "parsed"
    /\ UNCHANGED sum_str
    /\ UNCHANGED <<aggVars, cleanVars, rowVars, detVars, pdfVars,
                 toolVars, groupVars, buildVars, fmtVars,
                 tableVars, summaryVars, copyVars>>

NextSum == ParseSum

SpecSum == InitSum /\ [][NextSum]_vars

----------------------------------------------------------------------------
(* The classification specification: a table row is handed to              *)
(* _is_data_row.                                                           *)

DateExample == <<"3", "1", ".", "0", "1", ".", "2", "0", "2", "6">>

EditChars == {"x", ".", " "}

\* the texts one edit away from s: a character replaced, removed or added
Edits(s) ==
    {s}
    \cup {[s EXCEPT ![i] = c] : i \in 1..Len(s), c \in EditChars}
    \cup {SubSeq(s, 1, i - 1) \o SubSeq(s, i + 1, Len(s)) : i \in 1..Len(s)}
    \cup {SubSeq(s, 1, i) \o <<c>> \o SubSeq(s, i + 1, Len(s)) :
              i \in 0..Len(s), c \in EditChars}

DateTexts ==
    Edits(DateExample)
    \cup {<<"3", "1", ".", "1", "3", ".", "2", "0", "2", "6">>,
          DateExample \o <<"\n">>,
          <<"\t">> \o DateExample \o <<" ", "\n">>,
          <<"D", "a", "t", "e">>, <<>>}

SumTexts ==
    {sign \o num \o gap \o tail :
        sign \in {<<>>, <<"-">>, <<" ", "-">>},
        num  \in Texts({"7", ",", "."}, MaxNumLen),
        gap  \in {<<>>, <<" ">>, <<"\n", "\t">>},
        tail \in {<<"K", "Z", "T">>, <<"K", "Z">>, <<"K", "Z", "T", "\n">>,
                  <<"K", "Z", "T", " ", "x">>, <<"k", "z", "t">>}}
    \cup {<<"S", "u", "m">>, <<"-", "-", "7", " ", "K", "Z", "T">>,
          <<"x", "7", " ", "K", "Z", "T">>}

SumExampleCell == <<"7", ".", "7", " ", "K", "Z", "T">>

PurchaseText == <<"P", "u", "r", "c", "h", "a", "s", "e">>

HeaderRow ==
    << Some(<<"D", "a", "t", "e">>), Some(<<"S", "u", "m">>),
       Some(<<"D", "e", "s", "c", "r", "i", "p", "t", "i", "o", "n">>),
       Some(<<"D", "e", "t", "a", "i", "l", "s">>) >>

\* rows of four cells, over every date text and amount text
FullRows ==
    {<<d, a, Some(PurchaseText), Some(<<"d">>)>> :
        d \in {None} \cup {Some(t) : t \in DateTexts},
        a \in {None} \cup {Some(t) : t \in SumTexts}}

\* rows of any other length, cut from or padded to a few rows
SampleRows ==
    {<<Some(DateExample), Some(SumExampleCell), Some(<<"x">>), Some(<<"d">>)>>,
     <<Some(DateExample), Some(SumExampleCell), None, None>>,
     <<Some(<<>>), None, None, None>>,
     HeaderRow}

OddRows ==
    {[i \in 1..n |-> IF i <= 4 THEN r[i] ELSE None] :
        n \in 0..MaxCells, r \in SampleRows}

InitRow ==
    /\ AggIdle /\ CleanIdle /\ SumIdle /\ DetIdle /\ PdfIdle
    /\ CategoriesImported /\ SummaryIdle /\ CopyIdle
    /\ GroupIdle /\ BuildIdle /\ FmtIdle
    /\ raw_row \in {None} \cup {Some(r) : r \in FullRows \cup OddRows}
    /\ accepted = FALSE
    /\ rowPc = "input"

CheckRow ==
    /\ rowPc = "input"
    /\ accepted' = _is_data_row(raw_row)
    /\ rowPc' = "checked"
    /\ UNCHANGED raw_row
    /\ UNCHANGED <<aggVars, cleanVars, sumVars, detVars, pdfVars,
                 toolVars, groupVars, buildVars, fmtVars,
                 tableVars, summaryVars, copyVars>>

NextRow == CheckRow

SpecRow == InitRow /\ [][NextRow]_vars

----------------------------------------------------------------------------
(* The details specification: a details text, put together from a few     *)
(* tokens, is handed to parse_details.                                     *)

DetailTokens == {RECEIVER, <<" ">>, <<"4">>, <<"*">>, <<",">>, <<"a">>}

RECURSIVE Concat(_)
Concat(ts) == IF ts = <<>> THEN <<>> ELSE Head(ts) \o Concat(Tail(ts))

DetailTexts == {Concat(ts) : ts \in Texts(DetailTokens, MaxTokens)}

InitDetails ==
    /\ AggIdle /\ CleanIdle /\ SumIdle /\ RowIdle /\ PdfIdle
    /\ CategoriesImported /\ SummaryIdle /\ CopyIdle
    /\ GroupIdle /\ BuildIdle /\ FmtIdle
    /\ details_str \in DetailTexts
    /\ details_map = NoDetails
    /\ detPc = "input"

ParseDetails ==
    /\ detPc = "input"
    /\ details_map' = parse_details(details_str)
    /\ detPc' = "parsed"
    /\ UNCHANGED details_str
    /\ UNCHANGED <<aggVars, cleanVars, sumVars, rowVars, pdfVars,
                 toolVars, groupVars, buildVars, fmtVars,
                 tableVars, summaryVars, copyVars>>

NextDetails == ParseDetails

SpecDetails == InitDetails /\ [][NextDetails]_vars

----------------------------------------------------------------------------
(* The bank specification: parse_details is handed texts put together from *)
(* bank keywords in any order.                                             *)

BankTokens ==
    {<<"H", "a", "l", "y", "k", " ", "B", "a", "n", "k">>,
     <<"K", "a", "s", "p", "i", " ", "B", "a", "n", "k">>,
     <<"F", "r", "e", "e", "d", "o", "m", " ", "B", "a", "n", "k">>,
     <<"J", "u", "s", "a", "n", " ", "B", "a", "n", "k">>,
     <<"B", "e", "r", "e", "k", "e", " ", "B", "a", "n", "k">>,
     <<"B", "C", "C">>,
     <<"h", "a", "l", "y", "k", " ", "b", "a", "n", "k">>,
     <<",", " ">>}

InitBank ==
    /\ AggIdle /\ CleanIdle /\ SumIdle /\ RowIdle /\ PdfIdle
    /\ CategoriesImported /\ SummaryIdle /\ CopyIdle
    /\ GroupIdle /\ BuildIdle /\ FmtIdle
    /\ details_str \in {Concat(ts) : ts \in Texts(BankTokens, MaxBankTokens)}
    /\ details_map = NoDetails
    /\ detPc = "input"

SpecBank == InitBank /\ [][NextDetails]_vars

----------------------------------------------------------------------------
(* The code specification: parse_details is handed texts put together from *)
(* MCC labels, whitespace and digit groups.                                *)

MccTokens ==
    {MCC_LATIN, <<"m", "c", "c", ":">>, MCC_CYRILLIC, <<" ">>,
     <<"5", "4">>, <<"5", "4", "1">>, <<",">>}

InitMcc ==
    /\ AggIdle /\ CleanIdle /\ SumIdle /\ RowIdle /\ PdfIdle
    /\ CategoriesImported /\ SummaryIdle /\ CopyIdle
    /\ GroupIdle /\ BuildIdle /\ FmtIdle
    /\ details_str \in {Concat(ts) : ts \in Texts(MccTokens, MaxTokens)}
    /\ details_map = NoDetails
    /\ detPc = "input"

SpecMcc == InitMcc /\ [][NextDetails]_vars

----------------------------------------------------------------------------
(* The extraction specification: parse_pdf opens the file and walks the    *)
(* pages, the tables of each page and the rows of each table, as the       *)
(* extraction yields them; parse_transactions then builds the              *)
(* transactions.                                                           *)

GoodRow ==
    Some(<< Some(DateExample), Some(<<"-">> \o SumExampleCell),
            Some(PurchaseText), Some(<<"a", ",", "\n", "b">>) >>)

PaddedRow ==
    Some(<< Some(<<" ">> \o DateExample \o <<"\n">>),
            Some(<<"7", "\n", "K", "Z", "T", " ">>),
            Some(<<" ", "T", "r", "a", "n", "s", "f", "e", "r", " ">>),
            None >>)

NoDescriptionRow ==
    Some(<< Some(DateExample), Some(SumExampleCell), None, Some(<<"d">>) >>)

BadAmountRow ==
    Some(<< Some(DateExample), Some(<<"7", " ", "K", "Z">>),
            Some(PurchaseText), Some(<<"d">>) >>)

RowSamples ==
    {GoodRow, PaddedRow, NoDescriptionRow, BadAmountRow, Some(HeaderRow),
     Some(<<Some(DateExample)>>), None}

\* every row read so far, in page, table and row order
RECURSIVE Flatten(_)
Flatten(ss) == IF ss = <<>> THEN <<>> ELSE Head(ss) \o Flatten(Tail(ss))

RowsRead == Flatten(Flatten(pages))

InitPdf ==
    /\ AggIdle /\ CleanIdle /\ SumIdle /\ RowIdle /\ DetIdle
    /\ CategoriesImported /\ SummaryIdle /\ CopyIdle
    /\ GroupIdle /\ BuildIdle /\ FmtIdle
    /\ pdf_exists \in BOOLEAN
    /\ pages = <<>>
    /\ rows = <<>>
    /\ parsed = <<>>
    /\ caller \in {"tool", "direct"}
    /\ pdfPc = IF caller = "tool" THEN "tool" ELSE "start"
    /\ tool_result = None

\* src/mcp_server.py lines 99-103: the existence check of a server tool,
\* before it calls parse_pdf
ToolCheck ==
    /\ pdfPc = "tool"
    /\ IF pdf_exists
       THEN pdfPc' = "start" /\ UNCHANGED tool_result
       ELSE /\ pdfPc' = "tool_error"
            /\ tool_result' = Some([error |-> "File not found"])
    /\ UNCHANGED <<pdf_exists, pages, rows, parsed, caller>>
    /\ UNCHANGED <<aggVars, cleanVars, sumVars, rowVars, detVars,
                 groupVars, buildVars, fmtVars,
                 tableVars, summaryVars, copyVars>>

\* A faulty entry: the file is opened without the existence check.
OpenPdf_unchecked ==
    /\ pdfPc = "start"
    /\ pdfPc' = "loop"
    /\ UNCHANGED <<pdf_exists, pages, rows, parsed>>
    /\ UNCHANGED <<aggVars, cleanVars, sumVars, rowVars, detVars,
                 toolVars, groupVars, buildVars, fmtVars,
                 tableVars, summaryVars, copyVars>>

\* lines 104-108
OpenPdf ==
    /\ pdfPc = "start"
    /\ pdfPc' = IF pdf_exists THEN "loop" ELSE "FileNotFoundError"
    /\ UNCHANGED <<pdf_exists, pages, rows, parsed>>
    /\ UNCHANGED <<aggVars, cleanVars, sumVars, rowVars, detVars,
                 toolVars, groupVars, buildVars, fmtVars,
                 tableVars, summaryVars, copyVars>>

\* line 111: the next page
NextPage ==
    /\ pdfPc = "loop"
    /\ Len(pages) < MaxPages
    /\ pages' = Append(pages, <<>>)
    /\ UNCHANGED <<pdf_exists, rows, parsed, pdfPc>>
    /\ UNCHANGED <<aggVars, cleanVars, sumVars, rowVars, detVars,
                 toolVars, groupVars, buildVars, fmtVars,
                 tableVars, summaryVars, copyVars>>

\* lines 112-113: the next table of the page
NextTable ==
    /\ pdfPc = "loop"
    /\ pages # <<>>
    /\ Len(pages[Len(pages)]) < MaxTables
    /\ pages' = [pages EXCEPT ![Len(pages)] = Append(@, <<>>)]
    /\ UNCHANGED <<pdf_exists, rows, parsed, pdfPc>>
    /\ UNCHANGED <<aggVars, cleanVars, sumVars, rowVars, detVars,
                 toolVars, groupVars, buildVars, fmtVars,
                 tableVars, summaryVars, copyVars>>

\* lines 114-121: the next row of the table
ReadRow ==
    /\ pdfPc = "loop"
    /\ pages # <<>>
    /\ pages[Len(pages)] # <<>>
    /\ Len(RowsRead) < MaxRows
    /\ \E r \in RowSamples :
          LET p == Len(pages)
              t == Len(pages[p])
              step == pdf_row(rows, r)
          IN  /\ pages' = [pages EXCEPT ![p][t] = Append(@, r)]
              /\ rows' = step.rows
              /\ pdfPc' = IF step.raised THEN "AttributeError" ELSE "loop"
    /\ UNCHANGED <<pdf_exists, parsed>>
    /\ UNCHANGED <<aggVars, cleanVars, sumVars, rowVars, detVars,
                 toolVars, groupVars, buildVars, fmtVars,
                 tableVars, summaryVars, copyVars>>

\* line 123: the pages are exhausted
ReturnRows ==
    /\ pdfPc = "loop"
    /\ pdfPc' = "returned"
    /\ UNCHANGED <<pdf_exists, pages, rows, parsed>>
    /\ UNCHANGED <<aggVars, cleanVars, sumVars, rowVars, detVars,
                 toolVars, groupVars, buildVars, fmtVars,
                 tableVars, summaryVars, copyVars>>

ParseTransactions ==
    /\ pdfPc = "returned"
    /\ parsed' = parse_transactions(rows)
    /\ pdfPc' = "parsed"
    /\ UNCHANGED <<pdf_exists, pages, rows>>
    /\ UNCHANGED <<aggVars, cleanVars, sumVars, rowVars, detVars,
                 toolVars, groupVars, buildVars, fmtVars,
                 tableVars, summaryVars, copyVars>>

\* src/mcp_server.py lines 106-128: the tool returns its report
ToolReport ==
    /\ pdfPc = "parsed"
    /\ caller = "tool"
    /\ tool_result' = Some([transaction_count |-> Len(parsed)])
    /\ pdfPc' = "reported"
    /\ UNCHANGED <<pdf_exists, pages, rows, parsed, caller>>
    /\ UNCHANGED <<aggVars, cleanVars, sumVars, rowVars, detVars,
                 groupVars, buildVars, fmtVars,
                 tableVars, summaryVars, copyVars>>

NextPdf ==
    \/ ToolCheck \/ OpenPdf \/ NextPage \/ NextTable \/ ReadRow
    \/ ReturnRows \/ ParseTransactions \/ ToolReport

SpecPdf == InitPdf /\ [][NextPdf]_vars

----------------------------------------------------------------------------
(* The building specification: parse_row is called with a 4-tuple whose    *)
(* details text is any text, as a caller of the package may pass it.       *)

BuildAlphabet == {"a", ",", "\n", " "}

InitBuild ==
    /\ AggIdle /\ CleanIdle /\ SumIdle /\ RowIdle /\ DetIdle /\ PdfIdle
    /\ CategoriesImported /\ SummaryIdle /\ CopyIdle
    /\ GroupIdle /\ FmtIdle
    /\ tuple_in \in {<<date, SumExampleCell, PurchaseText, d>> :
                        date \in {DateExample, <<" ">> \o DateExample},
                        d \in Texts(BuildAlphabet, MaxText)}
    /\ txn = None
    /\ buildPc = "input"

\* src/budged/parser.py lines 63-70
BuildTransaction ==
    /\ buildPc = "input"
    /\ txn' = Some(parse_row(tuple_in[1], tuple_in[2], tuple_in[3], tuple_in[4]))
    /\ buildPc' = "built"
    /\ UNCHANGED tuple_in
    /\ UNCHANGED <<aggVars, cleanVars, sumVars, rowVars, detVars, pdfVars,
                 toolVars, groupVars, fmtVars,
                 tableVars, summaryVars, copyVars>>

NextBuild == BuildTransaction

SpecBuild == InitBuild /\ [][NextBuild]_vars

----------------------------------------------------------------------------
(* The formatting specification: format_aggregated is called with an       *)
(* aggregation table, or format_raw_report with a transaction list, under  *)
(* recognized and unrecognized sort keys and styles.                       *)

SortKeys == {"sum", "name", "date", "bogus"}

Styles == {"simple", "ascii", "bogus"}

TableKinds == {"Purchase", "Saved with bonuses", "Transfer"}

TableCategories == {"No MCC", "Food & Dining"}

TableTotals == {-30000, 1000}

\* the tables of n entries, each key once
RECURSIVE TablesOf(_)
TablesOf(n) ==
    IF n = 0 THEN {EmptyDict}
    ELSE {Append(t, [key |-> <<k, c>>, val |-> v]) :
             t \in TablesOf(n - 1),
             k \in TableKinds, c \in TableCategories, v \in TableTotals}

Tables ==
    {t \in UNION {TablesOf(n) : n \in 0..MaxEntries} :
        Cardinality(DictKeys(t)) = Len(t)}

ReportDates ==
    {<<"0", "2", ".", "0", "1", ".", "2", "0", "2", "6">>,
     <<"0", "1", ".", "0", "2", ".", "2", "0", "2", "6">>,
     <<"3", "1", ".", "1", "2", ".", "2", "0", "2", "5">>}

\* a transaction as parse_row builds it, with its amount in hundredths
ReportTxn(date, desc, amount) ==
    [Date |-> date, Sum |-> amount, Description |-> desc,
     Details |->
        IF desc = "Transfer"
        THEN [raw |-> IF amount > 0 THEN <<"b">> ELSE <<"a">>,
              merchant |-> None, bank |-> None, mcc |-> None,
              payment_method |-> None,
              receiver_account |-> Some(<<"4", "*", "8", "7", "9", "1">>)]
        ELSE [raw |-> IF amount > 0 THEN <<"b", ",">> ELSE <<"a", ",">>,
              merchant |-> Some(IF amount > 0 THEN <<"b">> ELSE <<"a">>),
              bank |-> None, mcc |-> Some(<<"5", "4", "1", "1">>),
              payment_method |-> None, receiver_account |-> None]]

ReportTxns ==
    {ReportTxn(date, desc, amount) :
        date \in ReportDates, desc \in Kinds, amount \in Amounts}

InitFmt ==
    /\ AggIdle /\ CleanIdle /\ SumIdle /\ RowIdle /\ DetIdle /\ PdfIdle
    /\ CategoriesImported /\ SummaryIdle /\ CopyIdle
    /\ GroupIdle /\ BuildIdle
    /\ \/ agg_in \in Tables /\ parsed_in = <<>>
       \/ agg_in = EmptyDict /\ parsed_in \in Texts(ReportTxns, MaxReportRows)
    /\ sort_by \in SortKeys
    /\ fmt \in Styles
    /\ report = None
    /\ fmtPc = "input"

\* src/budged/formatter.py lines 62-99
FormatAggregated ==
    /\ fmtPc = "input"
    /\ parsed_in = <<>>
    /\ report' = Some(format_aggregated(agg_in, sort_by, fmt))
    /\ fmtPc' = "aggregated"
    /\ UNCHANGED <<agg_in, parsed_in, sort_by, fmt>>
    /\ UNCHANGED <<aggVars, cleanVars, sumVars, rowVars, detVars, pdfVars,
                 toolVars, groupVars, buildVars,
                 tableVars, summaryVars, copyVars>>

\* src/budged/formatter.py lines 102-160
FormatRawReport ==
    /\ fmtPc = "input"
    /\ agg_in = EmptyDict
    /\ report' = Some(format_raw_report(parsed_in, sort_by, fmt))
    /\ fmtPc' = "raw"
    /\ UNCHANGED <<agg_in, parsed_in, sort_by, fmt>>
    /\ UNCHANGED <<aggVars, cleanVars, sumVars, rowVars, detVars, pdfVars,
                 toolVars, groupVars, buildVars,
                 tableVars, summaryVars, copyVars>>

NextFmt == FormatAggregated \/ FormatRawReport

SpecFmt == InitFmt /\ [][NextFmt]_vars

----------------------------------------------------------------------------
(* The summary specification: the category tables are imported, one        *)
(* assignment of the loops at a time; then a statement is parsed and the   *)
(* server tools report on it.                                              *)

SummaryCodes == {None, Some("5411")}

SummaryDate == <<"0", "1", ".", "0", "2", ".", "2", "0", "2", "6">>

StatementTxn(desc, amount, mcc) ==
    [Date |-> SummaryDate, Sum |-> amount, Description |-> desc,
     Details |-> [raw |-> <<>>, merchant |-> None, bank |-> None,
                  mcc |-> mcc, payment_method |-> None,
                  receiver_account |-> None]]

GroupBys == {"mcc", "group"}

SummarySortKeys == {"sum", "name", "date"}

SummaryFormats == {"json", "ascii"}

RawSortKeys == {"sum", "date", "bogus"}

RawFormats == {"ascii", "json"}

InitSummary ==
    /\ AggIdle /\ CleanIdle /\ SumIdle /\ RowIdle /\ DetIdle /\ PdfIdle
    /\ GroupIdle /\ BuildIdle /\ FmtIdle /\ SummaryIdle /\ CopyIdle
    /\ mcc_groups_now = mcc_groups
    /\ name_to_group_now = <<>>
    /\ imported = 0

\* src/budged/categories.py lines 74-76: one pass of the inner loop
ImportName ==
    LET order == import_order(mcc_groups_now, 1, 1)
    IN  /\ imported < Len(order)
        /\ name_to_group_now' = load_name(name_to_group_now,
                                          order[imported + 1].name,
                                          order[imported + 1].group)
        /\ imported' = imported + 1
        /\ UNCHANGED <<mcc_groups_now, summaryVars>>
        /\ UNCHANGED <<aggVars, cleanVars, sumVars, rowVars, detVars, pdfVars,
                     toolVars, groupVars, buildVars, fmtVars, copyVars>>

\* the statement's parsed list, one transaction at a time
AddStatementRow ==
    /\ imported = Len(import_order(mcc_groups_now, 1, 1))
    /\ aggPc = "input"
    /\ Len(data) < MaxSummaryTxns
    /\ \E desc \in Kinds, amount \in Amounts, mcc \in SummaryCodes :
          data' = Append(data, StatementTxn(desc, amount, mcc))
    /\ UNCHANGED <<aggregated, totals, aggPc>>
    /\ UNCHANGED <<cleanVars, sumVars, rowVars, detVars, pdfVars, toolVars,
                 groupVars, buildVars, fmtVars, tableVars, summaryVars, copyVars>>

\* src/mcp_server.py lines 153-183: the text lands in report, the JSON
\* object in tool_result
SpendingSummary ==
    /\ imported = Len(import_order(mcc_groups_now, 1, 1))
    /\ \E group_by \in GroupBys, sb \in SummarySortKeys,
          output_format \in SummaryFormats :
          LET out == spending_summary(data, group_by, sb, output_format)
          IN  IF output_format = "json"
              THEN /\ tool_result = None
                   /\ tool_result' = Some(out)
                   /\ UNCHANGED report
              ELSE /\ report = None
                   /\ report' = Some(out)
                   /\ UNCHANGED tool_result
    /\ aggPc' = "done"
    /\ UNCHANGED <<data, aggregated, totals, caller>>
    /\ UNCHANGED <<agg_in, parsed_in, sort_by, fmt, fmtPc>>
    /\ UNCHANGED <<cleanVars, sumVars, rowVars, detVars, pdfVars,
                 groupVars, buildVars, tableVars, summaryVars, copyVars>>

\* src/mcp_server.py lines 204-211
RawTransactionsReport ==
    /\ imported = Len(import_order(mcc_groups_now, 1, 1))
    /\ raw_report = None
    /\ \E sb \in RawSortKeys, output_format \in RawFormats :
          raw_report' = Some(raw_transactions_report(data, sb, output_format))
    /\ aggPc' = "done"
    /\ UNCHANGED <<data, aggregated, totals>>
    /\ UNCHANGED <<cleanVars, sumVars, rowVars, detVars, pdfVars, toolVars,
                 groupVars, buildVars, fmtVars, tableVars, copyVars>>

NextSummary ==
    ImportName \/ AddStatementRow \/ SpendingSummary \/ RawTransactionsReport

SpecSummary == InitSummary /\ [][NextSummary]_vars

----------------------------------------------------------------------------
(* The copies specification: one function of src/budged and the function   *)
(* of the same name of src/reporter.py are run on the same input.          *)

CopyInputsIdle ==
    /\ PdfIdle /\ BuildIdle /\ FmtIdle /\ GroupIdle
    /\ CategoriesImported /\ SummaryIdle
    /\ reporter_result = None

InitCopies ==
    /\ CopyInputsIdle
    /\ \/ /\ reporter_fn = "parse_sum"
          /\ AggIdle /\ CleanIdle /\ RowIdle /\ DetIdle
          /\ sum_str \in Texts(SumAlphabet, MaxSumText)
          /\ sum_val = Zero
          /\ sumPc = "input"
       \/ /\ reporter_fn = "parse_details"
          /\ AggIdle /\ CleanIdle /\ RowIdle /\ SumIdle
          /\ details_str \in DetailTexts
                 \cup {Concat(ts) : ts \in Texts(BankTokens, MaxBankTokens)}
          /\ details_map = NoDetails
          /\ detPc = "input"
       \/ /\ reporter_fn = "_is_data_row"
          /\ AggIdle /\ CleanIdle /\ SumIdle /\ DetIdle
          /\ raw_row \in {None} \cup {Some(r) : r \in FullRows \cup OddRows}
          /\ accepted = FALSE
          /\ rowPc = "input"
       \/ /\ reporter_fn = "_clean_details"
          /\ AggIdle /\ RowIdle /\ SumIdle /\ DetIdle
          /\ details \in {None}
                 \cup {Some(t) : t \in Texts(CleanAlphabet, MaxText)}
          /\ cleaned = <<>>
          /\ recleaned = <<>>
          /\ cleanPc = "input"
       \/ /\ reporter_fn = "group_by"
          /\ CleanIdle /\ RowIdle /\ SumIdle /\ DetIdle
          /\ data \in Texts({Txn(desc, amount, mcc) :
                                desc \in Kinds, amount \in Amounts,
                                mcc \in GroupCodes}, MaxGroupTxns)
          /\ aggregated = EmptyDict
          /\ totals = NoTotals
          /\ aggPc = "input"

\* src/budged/parser.py lines 12-18 and src/reporter.py lines 70-76
RunParseSum ==
    /\ reporter_fn = "parse_sum"
    /\ sumPc = "input"
    /\ sum_val' = parse_sum(sum_str)
    /\ reporter_result' = Some(reporter_parse_sum(sum_str))
    /\ sumPc' = "parsed"
    /\ UNCHANGED <<sum_str, reporter_fn>>
    /\ UNCHANGED <<aggVars, cleanVars, rowVars, detVars, groupVars>>
    /\ UNCHANGED <<pdfVars, toolVars, buildVars, fmtVars, tableVars,
                 summaryVars>>

\* src/budged/parser.py lines 21-60 and src/reporter.py lines 78-122
RunParseDetails ==
    /\ reporter_fn = "parse_details"
    /\ detPc = "input"
    /\ details_map' = parse_details(details_str)
    /\ reporter_result' = Some(reporter_parse_details(details_str))
    /\ detPc' = "parsed"
    /\ UNCHANGED <<details_str, reporter_fn>>
    /\ UNCHANGED <<aggVars, cleanVars, rowVars, sumVars, groupVars>>
    /\ UNCHANGED <<pdfVars, toolVars, buildVars, fmtVars, tableVars,
                 summaryVars>>

\* src/budged/parser.py lines 78-85 and src/reporter.py lines 183-190
RunIsDataRow ==
    /\ reporter_fn = "_is_data_row"
    /\ rowPc = "input"
    /\ accepted' = _is_data_row(raw_row)
    /\ reporter_result' = Some(reporter__is_data_row(raw_row))
    /\ rowPc' = "checked"
    /\ UNCHANGED <<raw_row, reporter_fn>>
    /\ UNCHANGED <<aggVars, cleanVars, detVars, sumVars, groupVars>>
    /\ UNCHANGED <<pdfVars, toolVars, buildVars, fmtVars, tableVars,
                 summaryVars>>

\* src/budged/parser.py lines 88-95 and src/reporter.py lines 193-200
RunCleanDetails ==
    /\ reporter_fn = "_clean_details"
    /\ cleanPc = "input"
    /\ cleaned' = _clean_details(details)
    /\ reporter_result' = Some(reporter__clean_details(details))
    /\ cleanPc' = "cleaned"
    /\ UNCHANGED <<details, recleaned, reporter_fn>>
    /\ UNCHANGED <<aggVars, rowVars, detVars, sumVars, groupVars>>
    /\ UNCHANGED <<pdfVars, toolVars, buildVars, fmtVars, tableVars,
                 summaryVars>>

\* src/budged/aggregator.py lines 8-47 and src/reporter.py lines 133-177
RunGroupBy ==
    /\ reporter_fn = "group_by"
    /\ aggPc = "input"
    /\ aggregated' = group_by_description_and_mcc(data)
    /\ group_aggregated' = group_by_description_and_mcc_group(data)
    /\ reporter_result' =
          Some([mcc |-> reporter_group_by_description_and_mcc(data),
                group |-> reporter_group_by_description_and_mcc_group(data)])
    /\ aggPc' = "done"
    /\ UNCHANGED <<data, totals, reporter_fn>>
    /\ UNCHANGED <<cleanVars, rowVars, detVars, sumVars>>
    /\ UNCHANGED <<pdfVars, toolVars, buildVars, fmtVars, tableVars,
                 summaryVars>>

NextCopies ==
    RunParseSum \/ RunParseDetails \/ RunIsDataRow \/ RunCleanDetails
        \/ RunGroupBy

SpecCopies == InitCopies /\ [][NextCopies]_vars

----------------------------------------------------------------------------
(* Properties of the aggregation.                                          *)

RECURSIVE SumSeq(_)
SumSeq(s) == IF s = <<>> THEN 0 ELSE Head(s) + SumSeq(Tail(s))

\* sum(table.values())
SumValues(d) == SumSeq([i \in 1..Len(d) |-> d[i].val])

\* the sum of the amounts of the rows of data that satisfy P
SumWhere(P(_)) ==
    SumSeq([i \in 1..Len(data) |-> IF P(data[i]) THEN data[i].Sum ELSE 0])

IsBonusRow(row) == row.Description = "Purchase with bonuses"

HasBonusRow == \E i \in 1..Len(data) : IsBonusRow(data[i])

\* the keys the posting rule names for one row
PostedKeys(row) ==
    IF IsBonusRow(row)
    THEN {<<"Purchase", mcc_name_of(row.Details.mcc)>>,
          <<"Saved with bonuses", mcc_name_of(row.Details.mcc)>>}
    ELSE {<<row.Description, mcc_name_of(row.Details.mcc)>>}

BonusExample == <<Txn("Purchase with bonuses", -150000, Some("9999"))>>

C2_Posting ==
    /\ aggPc = "done" =>
        /\ DictKeys(aggregated) = UNION {PostedKeys(data[i]) : i \in 1..Len(data)}
        /\ Cardinality(DictKeys(aggregated)) = Len(aggregated)
        /\ \A k \in DictKeys(aggregated) :
              DictGet(aggregated, k, 0) =
                  SumWhere(LAMBDA r : k \in PostedKeys(r))
    /\ group_by_description_and_mcc(BonusExample) =
          << [key |-> <<"Purchase", "Unknown/No MCC">>, val |-> -150000],
             [key |-> <<"Saved with bonuses", "Unknown/No MCC">>, val |-> -150000] >>

C2_Witness ==
    /\ aggPc = "done"
    /\ \E i, j \in 1..Len(data) :
          /\ i # j
          /\ IsBonusRow(data[i])
          /\ data[j].Description = "Purchase"
          /\ data[i].Details.mcc = data[j].Details.mcc
    /\ \E k \in DictKeys(aggregated) : k[1] = "Transfer"

\* C3: grand_total is the sum of all amounts, income_total the sum of the
\* positive amounts, bonuses_total the sum over 'Purchase with bonuses',
\* purchase_total the sum over 'Purchase' and 'Purchase with bonuses', and
\* net_purchases = purchase_total - bonuses_total; one bonus row of -1500
\* gives -1500, -1500 and 0.
C3_Totals ==
    /\ aggPc = "done" =>
        /\ totals.grand_total = SumWhere(LAMBDA r : TRUE)
        /\ totals.income_total = SumWhere(LAMBDA r : r.Sum > 0)
        /\ totals.bonuses_total = SumWhere(IsBonusRow)
        /\ totals.purchase_total =
              SumWhere(LAMBDA r : r.Description \in {"Purchase", "Purchase with bonuses"})
        /\ totals.net_purchases = totals.purchase_total - totals.bonuses_total
    /\ compute_purchase_totals(BonusExample).purchase_total = -150000
    /\ compute_purchase_totals(BonusExample).bonuses_total = -150000
    /\ compute_purchase_totals(BonusExample).net_purchases = 0

C3_Witness ==
    /\ aggPc = "done"
    /\ totals.bonuses_total < 0
    /\ totals.purchase_total < totals.bonuses_total
    /\ totals.income_total > 0
    /\ totals.grand_total # totals.purchase_total + totals.income_total

----------------------------------------------------------------------------
(* Properties of the cleaning.                                             *)

HasAt(s, c) == \E i \in 1..Len(s) : s[i] = c

\* C4: _clean_details is idempotent: cleaning a cleaned text changes nothing.
C4_CleanIdempotent ==
    cleanPc = "recleaned" => recleaned = cleaned

C4_Witness ==
    /\ cleanPc = "recleaned"
    /\ ~IsNone(details)
    /\ HasAt(details.val, "\n")
    /\ \E i \in 1..(Len(details.val) - 2) :
          /\ IsSpace(details.val[i]) /\ IsSpace(details.val[i + 1])
          /\ IsSpace(details.val[i + 2])
    /\ cleaned # <<>>
    /\ cleaned # details.val
    /\ recleaned = cleaned

----------------------------------------------------------------------------
(* Properties of the amount parser.                                        *)

IsNumberChar(c) == IsDigit(c) \/ c = "." \/ c = "-"

\* the text without the characters that are not a digit, a dot or a minus
RECURSIVE Remainder(_)
Remainder(s) ==
    IF s = <<>> THEN <<>>
    ELSE IF IsNumberChar(Head(s)) THEN <<Head(s)>> \o Remainder(Tail(s))
    ELSE Remainder(Tail(s))

Count(s, c) == Cardinality({i \in 1..Len(s) : s[i] = c})

\* a signed decimal: digits, at most one dot, at most one minus and that
\* one in front
ValidDecimal(r) ==
    /\ \E i \in 1..Len(r) : IsDigit(r[i])
    /\ Count(r, ".") <= 1
    /\ Count(r, "-") <= 1
    /\ Count(r, "-") = 1 => r[1] = "-"

RECURSIVE DigitsOf(_)
DigitsOf(r) ==
    IF r = <<>> THEN 0
    ELSE IF IsDigit(r[Len(r)])
         THEN DigitsOf(SubSeq(r, 1, Len(r) - 1)) * 10 + DigitVal(r[Len(r)])
         ELSE DigitsOf(SubSeq(r, 1, Len(r) - 1))

\* the number a valid signed decimal denotes
DecimalValue(r) ==
    LET dot   == IF HasAt(r, ".") THEN CHOOSE i \in 1..Len(r) : r[i] = "." ELSE Len(r)
        n     == DigitsOf(r)
    IN  Dec(IF HasAt(r, "-") THEN 0 - n ELSE n, Len(r) - dot)

SumExample == <<"-", "3", "0", "0", "0", "0", ".", "0", "0", " ", "K", "Z", "T">>

GarbageExample == <<"g", "a", "r", "b", "a", "g", "e">>

\* C5: parse_sum drops every character that is not a digit, a dot or a minus
\* and returns the remainder as a signed decimal, or 0 when the remainder is
\* no valid number; '-30000.00 KZT' gives -30000.00 and 'garbage' gives 0.
C5_ParseSum ==
    /\ sumPc = "parsed" =>
          sum_val = IF ValidDecimal(Remainder(sum_str))
                    THEN DecimalValue(Remainder(sum_str)) ELSE Zero
    /\ parse_sum(SumExample) = Dec(-30000, 0)
    /\ parse_sum(GarbageExample) = Zero

C5_Witness ==
    /\ sumPc = "parsed"
    /\ Remainder(sum_str) # sum_str
    /\ ValidDecimal(Remainder(sum_str))
    /\ HasAt(sum_str, "-") /\ HasAt(sum_str, ".")
    /\ sum_val.m < 0 /\ sum_val.e > 0

C5_WitnessInvalid ==
    /\ sumPc = "parsed"
    /\ Remainder(sum_str) # <<>>
    /\ ~ValidDecimal(Remainder(sum_str))
    /\ \E i \in 1..Len(sum_str) : IsDigit(sum_str[i]) /\ sum_str[i] # "0"
    /\ sum_val = Zero

----------------------------------------------------------------------------
(* Properties of the row classifier.                                       *)

Cells(r) == IF IsNone(r) THEN <<>> ELSE r.val

\* the cell at position i is missing, None or empty
EmptyCell(r, i) ==
    Len(Cells(r)) < i \/ IsNone(Cells(r)[i]) \/ Cells(r)[i].val = <<>>

\* C6: _is_data_row is false for a None row, for a row of fewer than 4
\* cells, for a row whose date or amount cell is empty or None, and for the
\* header row ['Date','Sum','Description','Details'].
C6_Rejects ==
    /\ ( /\ rowPc = "checked"
         /\ \/ IsNone(raw_row)
            \/ Len(Cells(raw_row)) < 4
            \/ EmptyCell(raw_row, 1)
            \/ EmptyCell(raw_row, 2)
            \/ raw_row = Some(HeaderRow) ) => ~accepted
    /\ ~_is_data_row(None)
    /\ ~_is_data_row(Some(HeaderRow))
    /\ ~_is_data_row(Some(<<Some(DateExample)>>))
    /\ ~_is_data_row(Some(<<Some(<<>>), None, None, None>>))

C6_Witness ==
    /\ rowPc = "checked"
    /\ ~accepted
    /\ Len(Cells(raw_row)) = 3
    /\ ~EmptyCell(raw_row, 1) /\ ~EmptyCell(raw_row, 2)
    /\ DATE_PATTERN_match(Cells(raw_row)[1].val)
    /\ SUM_PATTERN_match(Cells(raw_row)[2].val)

\* two digits, a dot, two digits, a dot, four digits
DateShape(t) ==
    /\ Len(t) = 10
    /\ \A i \in {1, 2, 4, 5, 7, 8, 9, 10} : IsDigit(t[i])
    /\ t[3] = "." /\ t[6] = "."

\* an optional minus, then one or more characters each a digit, a comma or
\* a dot, then one or more whitespace characters, then KZT; with number set,
\* at least one of those characters is a digit
ShapedAmount(t, number) ==
    \E a \in 0..1, b, c \in 1..Len(t) :
        /\ a < b /\ b < c /\ c + 3 = Len(t)
        /\ a = 1 => t[1] = "-"
        /\ \A i \in (a + 1)..b : IsDigit(t[i]) \/ t[i] \in {",", "."}
        /\ number => \E i \in (a + 1)..b : IsDigit(t[i])
        /\ \A i \in (b + 1)..c : IsSpace(t[i])
        /\ SubSeq(t, c + 1, c + 3) = <<"K", "Z", "T">>

AmountShape(t) == ShapedAmount(t, FALSE)

ThirteenthMonthRow ==
    Some(<<Some(<<"3", "1", ".", "1", "3", ".", "2", "0", "2", "6">>),
           Some(SumExampleCell), Some(PurchaseText), Some(<<"d">>)>>)

----------------------------------------------------------------------------
(* Properties of the details parser.                                       *)

AccountExample ==
    <<"4", "4", "0", "0", "4", "3", "*", "*", "*", "*", "*", "*", "8",
          "7", "9", "1">>

ReceiverExample ==
    RECEIVER \o <<" ">> \o AccountExample

\* somewhere in t stands 'Receiver:', then any whitespace, then a digit or
\* an asterisk
ReceiverPatternIn(t) ==
    \E p \in 1..Len(t), q \in 1..Len(t) :
        /\ OccursAt(t, RECEIVER, p)
        /\ q >= p + Len(RECEIVER)
        /\ \A i \in (p + Len(RECEIVER))..(q - 1) : IsSpace(t[i])
        /\ IsDigit(t[q]) \/ t[q] = "*"

\* the text before the first comma of t
BeforeFirstComma(t) ==
    SubSeq(t, 1, MinOf({i \in 1..Len(t) : t[i] = ","}) - 1)

\* C8: parse_details never returns both a receiver_account and a merchant;
\* merchant is set exactly when no 'Receiver:' account pattern matched and
\* the text has a comma, and is then the trimmed text before the first
\* comma; 'Receiver: 440043******8791' gives that account and no merchant.
C8_ReceiverOrMerchant ==
    /\ detPc = "parsed" =>
        /\ ~(~IsNone(details_map.receiver_account) /\ ~IsNone(details_map.merchant))
        /\ ~IsNone(details_map.merchant) <=>
              (~ReceiverPatternIn(details_str) /\ HasAt(details_str, ","))
        /\ ~IsNone(details_map.merchant) =>
              details_map.merchant.val = Strip(BeforeFirstComma(details_str))
        /\ ~IsNone(details_map.receiver_account) <=> ReceiverPatternIn(details_str)
    /\ parse_details(ReceiverExample).receiver_account = Some(AccountExample)
    /\ parse_details(ReceiverExample).merchant = None

C8_Witness ==
    /\ detPc = "parsed"
    /\ HasAt(details_str, ",")
    /\ ~IsNone(details_map.receiver_account)
    /\ Len(details_map.receiver_account.val) > 1
    /\ IsNone(details_map.merchant)
    /\ ~OccursAt(details_str, RECEIVER, 1)

C8_WitnessMerchant ==
    /\ detPc = "parsed"
    /\ ~IsNone(details_map.merchant)
    /\ details_map.merchant.val # <<>>
    /\ details_map.merchant.val # BeforeFirstComma(details_str)

\* C9: whenever the text begins with the label 'Receiver:', merchant is null.
C9_ReceiverPrefixNeverMerchant ==
    (detPc = "parsed" /\ OccursAt(details_str, RECEIVER, 1)) =>
        IsNone(details_map.merchant)

----------------------------------------------------------------------------
(* Properties of the extraction.                                           *)

\* the tuple t was built from the row r
BuiltFrom(t, r) ==
    /\ ~IsNone(r) /\ Len(r.val) >= 4
    /\ ~IsNone(r.val[1]) /\ ~IsNone(r.val[2])
    /\ t[1] = Strip(r.val[1].val)
    /\ t[2] = Strip(r.val[2].val)

AcceptedRead == {i \in 1..Len(RowsRead) : _is_data_row(RowsRead[i])}

\* C10: every tuple parse_pdf holds or returns, and every transaction built
\* from it, comes from a row that _is_data_row accepts: its date has the
\* shape of DATE_PATTERN and its amount text that of SUM_PATTERN, and no
\* more tuples exist than accepted rows were read.
C10_OnlyDataRows ==
    /\ \A i \in 1..Len(rows) :
          /\ \E j \in AcceptedRead : BuiltFrom(rows[i], RowsRead[j])
          /\ DATE_PATTERN_match(rows[i][1]) /\ DateShape(rows[i][1])
          /\ SUM_PATTERN_match(rows[i][2]) /\ AmountShape(rows[i][2])
    /\ Len(rows) <= Cardinality(AcceptedRead)
    /\ pdfPc = "parsed" =>
          /\ Len(parsed) = Len(rows)
          /\ \A i \in 1..Len(parsed) : DateShape(parsed[i].Date)

C10_Witness ==
    /\ pdfPc = "parsed"
    /\ Len(rows) = 2
    /\ Len(RowsRead) = MaxRows
    /\ rows[1] # rows[2]
    /\ \E i \in 1..Len(RowsRead) :
          ~IsNone(RowsRead[i]) /\ Len(RowsRead[i].val) = 4 /\ ~_is_data_row(RowsRead[i])

\* the rows that _is_data_row accepts among the rows read, in reading order
AcceptedRows == SelectSeq(RowsRead, _is_data_row)

\* C11: when parse_pdf returns, its list holds exactly one 4-tuple per row
\* that _is_data_row accepted, in page, table and row order, whose date,
\* amount text and description are the trimmed cells of that row; and
\* parse_transactions returns one transaction per tuple, the i-th built from
\* the i-th tuple.
C11_OneTuplePerAcceptedRow ==
    /\ pdfPc \in {"returned", "parsed", "reported"} =>
          /\ Len(rows) = Len(AcceptedRows)
          /\ \A i \in 1..Len(rows) :
                /\ Len(rows[i]) = 4
                /\ rows[i][1] = Strip(AcceptedRows[i].val[1].val)
                /\ rows[i][2] = Strip(AcceptedRows[i].val[2].val)
                /\ rows[i][3] = Strip(AcceptedRows[i].val[3].val)
    /\ pdfPc \in {"parsed", "reported"} =>
          /\ Len(parsed) = Len(rows)
          /\ \A i \in 1..Len(parsed) :
                parsed[i] = parse_row(rows[i][1], rows[i][2], rows[i][3], rows[i][4])

\* two accepted rows on different pages, a rejected row between them
C11_Witness ==
    /\ pdfPc = "parsed"
    /\ Len(pages) = 2
    /\ RowsRead = <<GoodRow, BadAmountRow, PaddedRow>>
    /\ pages[1] = << <<GoodRow, BadAmountRow>> >>
    /\ Len(parsed) = 2
    /\ parsed[1].Description = PurchaseText
    /\ parsed[2].Date = DateExample
    /\ parsed[1] # parsed[2]

----------------------------------------------------------------------------
(* Properties of parse_row.                                                *)

\* C12: for every call of parse_row, the raw field of the built details is
\* the cleaned details text (_clean_details of the text handed in), and
\* holds no newline.
C12_RawIsCleaned ==
    buildPc = "built" =>
        /\ txn.val.Details.raw = _clean_details(Some(tuple_in[4]))
        /\ ~HasAt(txn.val.Details.raw, "\n")

----------------------------------------------------------------------------
(* More properties of the cleaning.                                        *)

\* the positions of the characters of s that are not whitespace
WordChars(s) ==
    SelectSeq([i \in 1..Len(s) |-> i], LAMBDA i : ~IsSpace(s[i]))

\* what stands for the whitespace between positions a and b of s: nothing
\* when they are adjacent, a lone whitespace character other than a newline
\* as it is, and one space for a newline or a longer run
Separator(s, a, b) ==
    IF b = a + 1 THEN <<>>
    ELSE IF b = a + 2 /\ s[a + 1] # "\n" THEN <<s[a + 1]>>
    ELSE <<" ">>

\* s with its newlines and whitespace runs replaced and its ends trimmed,
\* written down character by character
Normalised(s) ==
    LET w == WordChars(s)
    IN  Flatten([k \in 1..Len(w) |->
                    IF k = 1 THEN <<s[w[1]]>>
                    ELSE Separator(s, w[k - 1], w[k]) \o <<s[w[k]]>>])

\* no newline, no two adjacent whitespace characters, no whitespace at
\* either end
CleanShape(t) ==
    /\ ~HasAt(t, "\n")
    /\ \A i \in 1..(Len(t) - 1) : ~(IsSpace(t[i]) /\ IsSpace(t[i + 1]))
    /\ t # <<>> => ~IsSpace(t[1]) /\ ~IsSpace(t[Len(t)])

\* C13: _clean_details returns the empty text for None and for the empty
\* text; otherwise every newline becomes a space (after a comma or period
\* as elsewhere), every run of two or more whitespace characters becomes
\* one space and the ends are trimmed; the result holds no newline, no two
\* adjacent whitespace characters and no whitespace at its ends.  The same
\* holds of the details field of every tuple of parse_pdf.
C13_CleanResult ==
    /\ cleanPc # "input" =>
          /\ (IsNone(details) \/ details.val = <<>>) => cleaned = <<>>
          /\ ~IsNone(details) => cleaned = Normalised(details.val)
          /\ CleanShape(cleaned)
    /\ \A i \in 1..Len(rows) : CleanShape(rows[i][4])

\* a newline after a comma, a newline elsewhere, each replaced in place
C13_Witness ==
    /\ cleanPc = "cleaned"
    /\ ~IsNone(details)
    /\ Len(cleaned) = Len(details.val)
    /\ \E i, j \in 2..Len(details.val) :
          /\ details.val[i] = "\n" /\ details.val[i - 1] = ","
          /\ details.val[j] = "\n" /\ details.val[j - 1] = "a"
          /\ cleaned[i] = " " /\ cleaned[j] = " "

----------------------------------------------------------------------------
(* Properties of the category and group resolution.                        *)

\* the category name the claim gives a code
ResolvedName(code) ==
    IF IsNone(code) \/ code.val = "" THEN "No MCC"
    ELSE IF code.val \in DOMAIN mcc2name THEN mcc2name[code.val]
    ELSE "Unknown/No MCC"

\* the kinds a row is posted under
PostedKinds(row) ==
    IF IsBonusRow(row) THEN {"Purchase", "Saved with bonuses"}
    ELSE {row.Description}

\* C14: the category of every key of the aggregation is the mapped name of
\* mcc2name for a known code, 'Unknown/No MCC' for a code that is present
\* but not in mcc2name, and 'No MCC' when the code is None or empty; every
\* row is posted under the name so resolved.
C14_CategoryResolution ==
    aggPc = "done" =>
        DictKeys(aggregated) =
            UNION {{<<k, ResolvedName(data[i].Details.mcc)>> : k \in PostedKinds(data[i])} :
                      i \in 1..Len(data)}

\* a known code, an unknown code and an empty or absent code in one list
C14_Witness ==
    /\ aggPc = "done"
    /\ \E i, j \in 1..Len(data) :
          /\ data[i].Details.mcc = Some("")
          /\ data[j].Details.mcc = Some("9999")
          /\ <<data[i].Description, "No MCC">> \in DictKeys(aggregated)
          /\ <<data[j].Description, "Unknown/No MCC">> \in DictKeys(aggregated)

\* the group the claim gives a category name
ResolvedGroup(name) ==
    IF name = "No MCC" THEN "Transfers/Other"
    ELSE IF groups_listing(name) # {}
    THEN mcc_groups[CHOOSE g \in groups_listing(name) : TRUE].group
    ELSE "Other Uncategorized"

\* the entries of the category table that fall on the group key gk
EntriesOf(gk) ==
    SelectSeq(aggregated,
              LAMBDA e : e.key[1] = gk[1] /\ ResolvedGroup(e.key[2]) = gk[2])

----------------------------------------------------------------------------
(* Properties of the formatting.                                           *)

\* C16: in format_aggregated and in format_raw_report an unrecognized sort
\* key gives the row order of the sort key 'sum', and an unrecognized style
\* gives the 'ascii' rendering.
C16_UnrecognizedFallsBack ==
    /\ fmtPc = "aggregated" =>
          /\ sort_by \notin {"sum", "name"} =>
                report.val.display_items =
                    format_aggregated(agg_in, "sum", fmt).display_items
          /\ fmt \notin {"simple", "ascii"} => report.val.style = "ascii"
    /\ fmtPc = "raw" =>
          /\ sort_by \notin {"sum", "name", "date"} =>
                report.val.display_rows =
                    format_raw_report(parsed_in, "sum", fmt).display_rows
          /\ fmt \notin {"simple", "ascii"} => report.val.style = "ascii"

\* the names of the tables in the order of Python's str comparison
NameOrder ==
    <<"Food & Dining", "No MCC", "Purchase", "Saved with bonuses", "Transfer">>

NameRank(n) == CHOOSE i \in 1..Len(NameOrder) : NameOrder[i] = n

\* (kind, category) of the row a comes before that of the row b
RowBefore(a, b) ==
    \/ NameRank(a[1]) < NameRank(b[1])
    \/ a[1] = b[1] /\ NameRank(a[2]) < NameRank(b[2])

\* the entries of the table other than the 'Saved with bonuses' ones
ShownEntries ==
    {<<agg_in[i].key[1], agg_in[i].key[2], agg_in[i].val>> :
        i \in {j \in 1..Len(agg_in) : agg_in[j].key[1] # "Saved with bonuses"}}

\* the sum of the entries of the kind k
KindTotal(k) ==
    SumValues(SelectSeq(agg_in, LAMBDA e : e.key[1] = k))

\* C20: format_aggregated displays exactly the entries whose kind is not
\* 'Saved with bonuses', each once, by total ascending under the sort key
\* 'sum' and by (kind, category) under the sort key 'name'; the bonus total
\* is the sum of the 'Saved with bonuses' entries and the purchase total
\* the sum of the 'Purchase' entries.
C20_DisplayedEntries ==
    fmtPc = "aggregated" =>
        LET shown == report.val.display_items
        IN  /\ {shown[i] : i \in 1..Len(shown)} = ShownEntries
            /\ Len(shown) = Cardinality(ShownEntries)
            /\ sort_by = "sum" =>
                  \A i \in 1..(Len(shown) - 1) : shown[i][3] <= shown[i + 1][3]
            /\ sort_by = "name" =>
                  \A i \in 1..(Len(shown) - 1) : RowBefore(shown[i], shown[i + 1])
            /\ report.val.bonuses_total = KindTotal("Saved with bonuses")
            /\ report.val.purchase_total = KindTotal("Purchase")

\* a bonus entry between two others that the sort by name exchanges
C20_Witness ==
    /\ fmtPc = "aggregated"
    /\ sort_by = "name"
    /\ Len(agg_in) = 3
    /\ agg_in[1].key = <<"Transfer", "No MCC">>
    /\ agg_in[2].key[1] = "Saved with bonuses"
    /\ agg_in[3].key = <<"Purchase", "No MCC">>
    /\ Len(report.val.display_items) = 2
    /\ report.val.display_items[1][1] = "Purchase"
    /\ report.val.bonuses_total = agg_in[2].val

----------------------------------------------------------------------------
(* Properties of the missing file.                                         *)

FileNotFound == Some([error |-> "File not found"])

\* C17: when the file does not exist, parse_pdf reads nothing, holds and
\* returns no rows and can only end in FileNotFoundError; a server tool
\* returns the 'File not found' error result and never a report; no
\* transaction list, empty or not, is produced.
C17_MissingFile ==
    ~pdf_exists =>
        /\ pages = <<>> /\ rows = <<>> /\ parsed = <<>>
        /\ pdfPc \in {"tool", "start", "FileNotFoundError", "tool_error"}
        /\ caller = "direct" => pdfPc \in {"start", "FileNotFoundError"}
        /\ caller = "tool" => pdfPc \in {"tool", "tool_error"}
        /\ pdfPc = "tool_error" <=> tool_result = FileNotFound
        /\ tool_result \in {None, FileNotFound}

C17_Witness ==
    /\ ~pdf_exists
    /\ caller = "direct"
    /\ pdfPc = "FileNotFoundError"

C17_WitnessTool ==
    /\ ~pdf_exists
    /\ caller = "tool"
    /\ tool_result = FileNotFound

----------------------------------------------------------------------------
(* Properties of the bank and code detection.                              *)

\* the bank names in the fixed order
BankOrder ==
    <<"Halyk Bank", "Kaspi Bank", "Freedom Bank", "Jusan Bank", "Bereke Bank",
      "BCC">>

\* a keyword of the i-th bank occurs in the text t
Mentions(t, i) ==
    \E k \in 1..Len(bank_keywords[i].keywords) :
        Contains(t, bank_keywords[i].keywords[k])

KaspiThenHalyk ==
    <<"K", "a", "s", "p", "i", " ", "B", "a", "n", "k", ",", " ",
      "H", "a", "l", "y", "k", " ", "B", "a", "n", "k">>

\* C18: bank is the name of the first pair, in the order Halyk Bank, Kaspi
\* Bank, Freedom Bank, Jusan Bank, Bereke Bank, BCC, with a keyword in the
\* text, wherever the keywords stand in the text, and null when no keyword
\* occurs; 'Kaspi Bank, Halyk Bank' gives 'Halyk Bank'.
C18_FirstBankInOrder ==
    /\ detPc = "parsed" =>
          LET hits == {i \in 1..Len(BankOrder) : Mentions(details_str, i)}
          IN  IF hits = {} THEN IsNone(details_map.bank)
              ELSE details_map.bank = Some(BankOrder[MinOf(hits)])
    /\ parse_details(KaspiThenHalyk).bank = Some("Halyk Bank")

C18_Witness ==
    /\ detPc = "parsed"
    /\ details_str = KaspiThenHalyk
    /\ details_map.bank = Some("Halyk Bank")

\* the label 'MCC:' or its Cyrillic variant, in any letter case, stands at
\* position p of t, followed by whitespace and exactly four digits
LabelledCodeAt(t, p) ==
    LET u == UpperText(t)
        w == class_end(t, p + 3, SpaceChars)
    IN  /\ OccursAt(u, MCC_LATIN, p) \/ OccursAt(u, MCC_CYRILLIC, p)
        /\ w > p + 3
        /\ class_end(t, w, Digits) = w + 4

\* C19: mcc is set exactly when the text holds the label followed by
\* whitespace and exactly 4 digits, and is then the 4 digits of the
\* leftmost such occurrence; otherwise mcc is null.
C19_LabelWhitespaceFourDigits ==
    detPc = "parsed" =>
        LET hits == {p \in 1..Len(details_str) : LabelledCodeAt(details_str, p)}
        IN  IF hits = {} THEN IsNone(details_map.mcc)
            ELSE LET w == class_end(details_str, MinOf(hits) + 3, SpaceChars)
                 IN  details_map.mcc = Some(SubSeq(details_str, w + 1, w + 4))

----------------------------------------------------------------------------
(* Properties of the raw report.                                           *)

\* the number written by the digits of t from position a to position b
RECURSIVE NumberAt(_, _, _)
NumberAt(t, a, b) ==
    IF b < a THEN 0 ELSE 10 * NumberAt(t, a, b - 1) + DigitVal(t[b])

\* the day of the calendar a date DD.MM.YYYY names, as year, month, day
CalendarDay(d) ==
    <<NumberAt(d, 7, 10), NumberAt(d, 4, 5), NumberAt(d, 1, 2)>>

\* the calendar day a is before the calendar day b
DayBefore(a, b) ==
    \/ a[1] < b[1]
    \/ a[1] = b[1] /\ a[2] < b[2]
    \/ a[1] = b[1] /\ a[2] = b[2] /\ a[3] < b[3]

\* the ways to list the positions 1..n, each once
Orders(n) == {f \in [1..n -> 1..n] : \A i, j \in 1..n : i # j => f[i] # f[j]}

\* the displayed row shows the transaction r
Shows(row, r) ==
    /\ row[1] = r.Date
    /\ row[2] = (IF r.Description = "Purchase with bonuses"
                 THEN "Purchase" ELSE r.Description)
    /\ row[5] = r.Sum
    /\ row = raw_report_row([grand_total |-> 0, bonuses_total |-> 0,
                             purchase_total |-> 0, display_rows |-> <<>>],
                            r).display_rows[1]

\* C21: with the sort key 'date' format_raw_report lists the rows in
\* non-decreasing calendar order (year, then month, then day), rows of one
\* date in their input order; with the sort key 'sum' the rows are in
\* non-decreasing amount order.
C21_DateAndAmountOrder ==
    fmtPc = "raw" =>
        LET shown == report.val.display_rows
            n == Len(parsed_in)
        IN  /\ Len(shown) = n
            /\ sort_by = "date" =>
                  \E f \in Orders(n) :
                     /\ \A i \in 1..n : Shows(shown[i], parsed_in[f[i]])
                     /\ \A i, j \in 1..n : i < j =>
                           /\ ~DayBefore(CalendarDay(shown[j][1]),
                                         CalendarDay(shown[i][1]))
                           /\ shown[i][1] = shown[j][1] => f[i] < f[j]
            /\ sort_by = "sum" =>
                  /\ \E f \in Orders(n) :
                        \A i \in 1..n : Shows(shown[i], parsed_in[f[i]])
                  /\ \A i \in 1..(n - 1) : shown[i][5] <= shown[i + 1][5]

\* two dates whose order as texts is the reverse of their calendar order
C21_Witness ==
    /\ fmtPc = "raw"
    /\ sort_by = "date"
    /\ Len(parsed_in) = 2
    /\ parsed_in[1].Date = <<"0", "2", ".", "0", "1", ".", "2", "0", "2", "6">>
    /\ parsed_in[2].Date = <<"3", "1", ".", "1", "2", ".", "2", "0", "2", "5">>
    /\ report.val.display_rows[1][1] = parsed_in[2].Date
    /\ report.val.display_rows[2][1] = parsed_in[1].Date

\* how many elements of the sequence q are in the set S
CountIn(q, S) == Cardinality({i \in 1..Len(q) : q[i] \in S})

----------------------------------------------------------------------------
(* Properties of the category tables.                                      *)

\* how many (group, position) places of the table groups hold the name n
Listings(groups, n) ==
    {<<g, i>> \in (1..Len(groups)) \X (1..9) :
        i <= Len(groups[g].names) /\ groups[g].names[i] = n}

NamesOf(groups) ==
    UNION {{groups[g].names[i] : i \in 1..Len(groups[g].names)} :
              g \in 1..Len(groups)}

ImportDone == imported = Len(import_order(mcc_groups_now, 1, 1))

\* C23: once the import loops have run, and after any parse, aggregation
\* and report of the server tools, mcc_groups is the table the module was
\* written with, every name it lists is listed in exactly one place,
\* name_to_group maps exactly the listed names, each to the group that
\* lists it, and it is the table the aggregation reads.
C23_TablesConsistent ==
    ImportDone =>
        /\ mcc_groups_now = mcc_groups
        /\ \A g \in 1..Len(mcc_groups_now) : Len(mcc_groups_now[g].names) <= 9
        /\ \A n \in NamesOf(mcc_groups_now) :
              Cardinality(Listings(mcc_groups_now, n)) = 1
        /\ DOMAIN name_to_group_now = NamesOf(mcc_groups_now)
        /\ \A n \in NamesOf(mcc_groups_now), g \in 1..Len(mcc_groups_now) :
              name_to_group_now[n] = mcc_groups_now[g].group
                  <=> \E i \in 1..Len(mcc_groups_now[g].names) :
                         mcc_groups_now[g].names[i] = n
        /\ name_to_group_now = name_to_group

\* the tables are imported and a statement with a grocery purchase has
\* been summarised by group
C23_Witness ==
    /\ ImportDone
    /\ report # None
    /\ \E i \in 1..Len(report.val.display_items) :
          report.val.display_items[i][2] = "Food & Dining"
    /\ raw_report # None

----------------------------------------------------------------------------
(* Properties of the summary figures.                                      *)

\* C24: the 'Net purchases' figure of the spending summary text (made by
\* format_aggregated from the category or group aggregation of the
\* statement) equals net_purchases of compute_purchase_totals for the same
\* statement, and so does the 'Net purchases' figure of the raw report.
C24_NetPurchasesAgree ==
    LET net == compute_purchase_totals(data).net_purchases
    IN  /\ report # None => report.val.net_purchases = net
        /\ raw_report # None => raw_report.val.net_purchases = net
        /\ tool_result # None => tool_result.val.totals.net_purchases = net

----------------------------------------------------------------------------
(* Properties of the extraction of rows with absent cells.                 *)

\* C25: when rows accepted by _is_data_row have been read, whatever their
\* description and details cells, parse_pdf has not raised on a cell.
C25_NullCellNeverAborts ==
    (\E i \in 1..Len(RowsRead) : _is_data_row(RowsRead[i]))
        => pdfPc # "AttributeError"

----------------------------------------------------------------------------
(* Properties of the amounts of accepted rows.                             *)

\* C26: the amount cell of a row accepted by _is_data_row cleans to a text
\* that float() converts, so parse_sum never falls back to zero for it.
C26_AcceptedAmountIsValid ==
    (rowPc = "checked" /\ accepted)
        => float_of(keep_number_chars(raw_row.val[2].val)).ok

----------------------------------------------------------------------------
(* Properties of the two copies of the pipeline.                           *)

\* C27: on every input, each function of src/reporter.py returns what the
\* function of the same name of src/budged returns: parse_sum,
\* parse_details (the bank included), _is_data_row, _clean_details,
\* group_by_description_and_mcc and group_by_description_and_mcc_group;
\* and the category tables of the two copies are the same.
C27_CopiesAgree ==
    /\ (reporter_fn = "parse_sum" /\ sumPc = "parsed")
          => reporter_result = Some(sum_val)
    /\ (reporter_fn = "parse_details" /\ detPc = "parsed")
          => reporter_result = Some(details_map)
    /\ (reporter_fn = "_is_data_row" /\ rowPc = "checked")
          => reporter_result = Some(accepted)
    /\ (reporter_fn = "_clean_details" /\ cleanPc = "cleaned")
          => reporter_result = Some(cleaned)
    /\ (reporter_fn = "group_by" /\ aggPc = "done")
          => reporter_result = Some([mcc |-> aggregated,
                                     group |-> group_aggregated])
    /\ reporter_mcc2name = mcc2name
    /\ mccGroups = mcc_groups
    /\ reporter_name_to_group = name_to_group

\* both copies have parsed a text that names Kaspi Bank before Halyk Bank,
\* and the copy of src/reporter.py chose Halyk Bank
C27_Witness ==
    /\ reporter_fn = "parse_details"
    /\ detPc = "parsed"
    /\ details_str = KaspiThenHalyk
    /\ reporter_result.val.bank = Some("Halyk Bank")
====
